---- MODULE Spec2Model ----
(***************************************************************************)
(* awg-proxy: a UDP relay between a WireGuard client and an AmneziaWG      *)
(* server.  Two state machines are modelled:                               *)
(*   Spec   the proxy session of internal/awg/proxy.go and the Linux batch *)
(*          loops of internal/awg/batch_linux.go (Run, stop handler,       *)
(*          timeout checker, client->server loop, server->client loop);    *)
(*   SpecT  the packet transform engine of internal/awg/transform.go,      *)
(*          byte by byte.                                                  *)
(***************************************************************************)
EXTENDS Integers, Sequences, FiniteSets, TLC

(***************************************************************************)
(* Bounds of the model.                                                    *)
(***************************************************************************)
MaxClientPkts == 3      \* client datagrams the environment sends
MaxServerPkts == 2      \* server datagrams the environment sends
MaxSock == 2            \* remote sockets that a dial can create
MaxBatch == 3           \* datagrams one recvmmsg returns
MaxJc == 1              \* largest junk count among the configurations
MaxTicks == 3           \* ticks of the timeout checker's ticker

(***************************************************************************)
(* Program constants.                                                      *)
(***************************************************************************)
wgHandshakeInit == 1
wgHandshakeResponse == 2
wgCookieReply == 3
wgTransportData == 4
WgHandshakeInitSize == 148
WgHandshakeResponseSize == 92
WgCookieReplySize == 64
WgTransportMinSize == 32
checkInterval == 5
defaultTimeout == 180
maxBackoff == 30

NoAddr == "nil"                 \* clientAddr.Load() == nil
Addrs == {"A", "B"}             \* client source addresses
NoConn == 0                     \* a nil *net.UDPConn

Min2(a, b) == IF a < b THEN a ELSE b

(***************************************************************************)
(* 32-bit unsigned words.  A uint32 is the pair <<hi, lo>> of its 16-bit   *)
(* halves; a byte slice is a sequence of numbers in 0..255, so that Go's   *)
(* buf[i] is buf[i + 1] here.                                              *)
(***************************************************************************)
U32(k) == <<k \div 65536, k % 65536>>       \* a constant below 2^31

Zero32 == <<0, 0>>

\* a <= b and a < b on uint32
Le32(a, b) == a[1] < b[1] \/ (a[1] = b[1] /\ a[2] <= b[2])

Lt32(a, b) == a[1] < b[1] \/ (a[1] = b[1] /\ a[2] < b[2])

\* a + b and a - b on uint32, wrapping
Add32(a, b) ==
    LET lo == a[2] + b[2]
    IN  <<(a[1] + b[1] + lo \div 65536) % 65536, lo % 65536>>

Sub32(a, b) ==
    LET lo == a[2] - b[2] + 65536
    IN  <<(a[1] - b[1] + 65535 + lo \div 65536) % 65536, lo % 65536>>

\* x ^ y on 4-bit values
XorNibble ==
    [a \in 0..15 |-> [b \in 0..15 |->
        LET bit(x, k) == (x \div k) % 2
            x1(k) == ((bit(a, k) + bit(b, k)) % 2) * k
        IN  x1(1) + x1(2) + x1(4) + x1(8)]]

Xor16(a, b) ==
    XorNibble[a % 16][b % 16]
    + 16 * XorNibble[(a \div 16) % 16][(b \div 16) % 16]
    + 256 * XorNibble[(a \div 256) % 16][(b \div 256) % 16]
    + 4096 * XorNibble[a \div 4096][b \div 4096]

Xor32(a, b) == <<Xor16(a[1], b[1]), Xor16(a[2], b[2])>>

Pow2 == [n \in 0..16 |-> 2^n]

\* rotr32(x, n) = (x >> n) | (x << (32 - n)), for 0 < n <= 16
rotr32(x, n) ==
    IF n = 16 THEN <<x[2], x[1]>>
    ELSE LET p == Pow2[n]
             q == Pow2[16 - n]
         IN  <<x[1] \div p + (x[2] % p) * q, x[2] \div p + (x[1] % p) * q>>

\* binary.LittleEndian.Uint32(buf[off:])
LEUint32(buf, off) ==
    <<buf[off + 3] + 256 * buf[off + 4], buf[off + 1] + 256 * buf[off + 2]>>

\* the four bytes binary.LittleEndian.PutUint32 writes for v
LEBytes(v) == <<v[2] % 256, v[2] \div 256, v[1] % 256, v[1] \div 256>>

\* buf after binary.LittleEndian.PutUint32(buf[off:], v)
LEPutUint32(buf, off, v) ==
    [i \in 1..Len(buf) |->
        IF i > off /\ i <= off + 4 THEN LEBytes(v)[i - off] ELSE buf[i]]

ZeroBytes(n) == [i \in 1..n |-> 0]

VARIABLES
    batch,          \* TRUE: the Linux batch loops run; FALSE: the portable loops
    cfg,            \* the Config fields the session reads
    scen,           \* what the environment may do in this run
    stop,           \* the stop channel is closed
    stopped,        \* Proxy.stopped
    lastActive,     \* Proxy.lastActive
    clientAddr,     \* Proxy.clientAddr
    remoteConn,     \* Proxy.remoteConn
    cpsCounter,     \* Proxy.cpsCounter
    listenConn,     \* "none" | "open" | "closed"
    dialed,         \* number of remote sockets created so far
    closed,         \* remote sockets on which Close has been called
    run,            \* Run: its position and its result
    sh,             \* stop handler: position and the socket it loaded
    tc,             \* timeout checker: position, inactiveCount, loaded socket
    c2s,            \* client->server loop: position and locals
    s2c,            \* server->client loop: position and locals
    remoteLog,      \* the writes issued on a remote socket since the last
                    \* receive on the listen socket, in order
    listenLog,      \* the writes issued on the listen socket since the last
                    \* receive on a remote socket, in order
    env,            \* what the environment has done so far
    tf              \* one call of a library function (the transform
                    \* engine, the template parser, the decoy generators,
                    \* the hash): its inputs, its results and its position

vars == <<batch, cfg, scen, stop, stopped, lastActive, clientAddr, remoteConn,
          cpsCounter, listenConn, dialed, closed, run, sh, tc, c2s, s2c,
          remoteLog, listenLog, env, tf>>

shared == <<stopped, lastActive, clientAddr, remoteConn, cpsCounter>>
socks == <<listenConn, dialed, closed>>
logs == <<remoteLog, listenLog>>
conf == <<batch, cfg, scen, tf>>

(***************************************************************************)
(* Configurations of the session.  CPS[i] is TRUE when template I_i is     *)
(* configured (non-nil).                                                   *)
(***************************************************************************)
ProxyConfigs ==
    { [Jc |-> MaxJc, Jmin |-> 10, Jmax |-> 50,
       CPS |-> <<TRUE, FALSE, TRUE, FALSE, FALSE>>,
       h4NoOp |-> FALSE, Timeout |-> 5],
      [Jc |-> 0, Jmin |-> 10, Jmax |-> 50,
       CPS |-> <<TRUE, FALSE, TRUE, FALSE, FALSE>>,
       h4NoOp |-> TRUE, Timeout |-> 10],
      [Jc |-> 0, Jmin |-> 10, Jmax |-> 50,
       CPS |-> <<TRUE, FALSE, TRUE, FALSE, FALSE>>,
       h4NoOp |-> FALSE, Timeout |-> 0] }

(***************************************************************************)
(* Environments.  A run is bounded by what its environment does: whether   *)
(* the stop channel is ever closed, how many ticks the ticker delivers,    *)
(* how many datagrams the client and the server send, and how many reads   *)
(* or writes on an open socket the network fails.                          *)
(***************************************************************************)
Scenarios ==
    { \* shutdown while datagrams flow in both directions
      [stop |-> TRUE, ticks |-> 0, clients |-> 1, servers |-> 1, errs |-> 0],
      \* shutdown racing a reconnect caused by a timeout or a failed read
      [stop |-> TRUE, ticks |-> MaxTicks, clients |-> 0, servers |-> 0,
       errs |-> 1],
      \* client traffic only, with a failing write
      [stop |-> FALSE, ticks |-> 0, clients |-> MaxClientPkts, servers |-> 0,
       errs |-> 1],
      \* client keepalives under the timeout checker
      [stop |-> FALSE, ticks |-> MaxTicks, clients |-> 2, servers |-> 0,
       errs |-> 0],
      \* server traffic around a reconnect
      [stop |-> FALSE, ticks |-> MaxTicks, clients |-> 1,
       servers |-> MaxServerPkts, errs |-> 0],
      \* a client that changes its address while the server answers
      [stop |-> FALSE, ticks |-> 0, clients |-> 2, servers |-> 1,
       errs |-> 0] }

\* The datagrams the client sends: a handshake-init and a transport packet.
ClientKinds ==
    { [msgType |-> wgHandshakeInit, n |-> WgHandshakeInitSize],
      [msgType |-> wgTransportData, n |-> WgTransportMinSize] }

NoPkt == [id |-> 0, src |-> NoAddr, msgType |-> 0, n |-> 0]
NoSrv == [id |-> 0, valid |-> FALSE]

c2sIdle ==
    [pc |-> "idle", pkt |-> NoPkt, currentRemote |-> NoConn,
     cps |-> <<>>, junk |-> <<>>, msgs |-> <<>>, i |-> 0, nSend |-> 0,
     sendBS |-> <<>>, total |-> 0]

s2cIdle ==
    [pc |-> "idle", currentRemote |-> NoConn, backoff |-> 1, newConn |-> NoConn,
     pkt |-> NoSrv, addr |-> NoAddr, msgs |-> <<>>,
     nSend |-> 0, sendBS |-> <<>>, total |-> 0, pktCount |-> 255]

\* The library functions are not exercised call by call in the session:
\* the session uses their decisions only (OutboundKind, sendJunkOf).
tfIdle == [pc |-> "idle"]

\* The Proxy after NewProxy, before Run.
NewProxy ==
    /\ stop = FALSE
    /\ stopped = FALSE
    /\ lastActive = FALSE
    /\ clientAddr = NoAddr
    /\ remoteConn = NoConn
    /\ cpsCounter = 0
    /\ listenConn = "none"
    /\ dialed = 0
    /\ closed = {}
    /\ run = [pc |-> "listen", err |-> FALSE]
    /\ sh = [pc |-> "idle", rc |-> NoConn]
    /\ tc = [pc |-> "idle", inactiveCount |-> 0, rc |-> NoConn]
    /\ c2s = c2sIdle
    /\ s2c = s2cIdle
    /\ remoteLog = <<>>
    /\ listenLog = <<>>
    /\ env = [nClient |-> 0, nServer |-> 0, nTicks |-> 0, nErrs |-> 0,
              clientSeen |-> FALSE, nCps |-> 0]

Init ==
    /\ batch \in BOOLEAN
    /\ cfg \in ProxyConfigs
    /\ scen \in Scenarios
    /\ tf = tfIdle
    /\ NewProxy

(***************************************************************************)
(* The environment closes the stop channel.                                *)
(***************************************************************************)
closeStop ==
    /\ scen.stop
    /\ ~stop
    /\ stop' = TRUE
    /\ UNCHANGED <<conf, shared, socks, run, sh, tc, c2s, s2c, logs, env>>

(***************************************************************************)
(* Proxy.Run                                                               *)
(***************************************************************************)
\* net.ListenUDP succeeds or fails.
Run_listen ==
    /\ run.pc = "listen"
    /\ \/ /\ listenConn' = "open"
          /\ run' = [run EXCEPT !.pc = "dial"]
       \/ /\ run' = [pc |-> "returned", err |-> TRUE]
          /\ UNCHANGED listenConn
    /\ UNCHANGED <<conf, stop, shared, dialed, closed, sh, tc, c2s, s2c, logs, env>>

\* net.DialUDP; on success the stores and the four goroutines; on failure the
\* deferred listenConn.Close.
Run_dial ==
    /\ run.pc = "dial"
    /\ \/ /\ dialed' = 1
          /\ remoteConn' = 1
          /\ lastActive' = TRUE
          /\ run' = [run EXCEPT !.pc = "wait"]
          /\ sh' = [sh EXCEPT !.pc = "wait"]
          /\ tc' = [tc EXCEPT !.pc = "select"]
          /\ c2s' = [c2s EXCEPT !.pc = IF batch THEN "bRead" ELSE "read"]
          /\ s2c' = [s2c EXCEPT !.pc = IF batch THEN "bRead" ELSE "read",
                                !.currentRemote = 1]
          /\ UNCHANGED listenConn
       \/ /\ listenConn' = "closed"
          /\ run' = [pc |-> "returned", err |-> TRUE]
          /\ UNCHANGED <<dialed, remoteConn, lastActive, sh, tc, c2s, s2c>>
    /\ UNCHANGED <<conf, stop, stopped, clientAddr, cpsCounter, closed, logs, env>>

\* wg.Wait returns; the final remoteConn.Load / Close and the deferred
\* listenConn.Close.
Run_exit ==
    /\ run.pc = "wait"
    /\ sh.pc = "done" /\ c2s.pc = "done" /\ s2c.pc = "done"
    /\ closed' = IF remoteConn # NoConn THEN closed \cup {remoteConn} ELSE closed
    /\ listenConn' = "closed"
    /\ run' = [run EXCEPT !.pc = "returned"]
    /\ UNCHANGED <<conf, stop, shared, dialed, sh, tc, c2s, s2c, logs, env>>

(***************************************************************************)
(* Stop handler goroutine of Run                                           *)
(***************************************************************************)
stopHandler_stopped ==
    /\ sh.pc = "wait"
    /\ stop
    /\ stopped' = TRUE
    /\ sh' = [sh EXCEPT !.pc = "closeListen"]
    /\ UNCHANGED <<conf, stop, lastActive, clientAddr, remoteConn, cpsCounter,
                   socks, run, tc, c2s, s2c, logs, env>>

stopHandler_closeListen ==
    /\ sh.pc = "closeListen"
    /\ listenConn' = "closed"
    /\ sh' = [sh EXCEPT !.pc = "load"]
    /\ UNCHANGED <<conf, stop, shared, dialed, closed, run, tc, c2s, s2c, logs, env>>

stopHandler_load ==
    /\ sh.pc = "load"
    /\ sh' = [pc |-> IF remoteConn # NoConn THEN "close" ELSE "done",
              rc |-> remoteConn]
    /\ UNCHANGED <<conf, stop, shared, socks, run, tc, c2s, s2c, logs, env>>

stopHandler_close ==
    /\ sh.pc = "close"
    /\ closed' = closed \cup {sh.rc}
    /\ sh' = [pc |-> "done", rc |-> NoConn]
    /\ UNCHANGED <<conf, stop, shared, listenConn, dialed, run, tc, c2s, s2c, logs, env>>

(***************************************************************************)
(* Timeout checker goroutine of Run                                        *)
(***************************************************************************)
\* Variant: a Timeout that is not positive is used as it is.
checksNeeded_noDefault ==
    LET n == cfg.Timeout \div checkInterval
    IN  IF n < 1 THEN 1 ELSE n

checksNeeded ==
    LET timeout == IF cfg.Timeout <= 0 THEN defaultTimeout ELSE cfg.Timeout
        n == timeout \div checkInterval
    IN  IF n < 1 THEN 1 ELSE n

timeoutChecker_stop ==
    /\ tc.pc = "select"
    /\ stop
    /\ tc' = [tc EXCEPT !.pc = "done"]
    /\ UNCHANGED <<conf, stop, shared, socks, run, sh, c2s, s2c, logs, env>>

\* One tick: the CompareAndSwap and the inactivity count.
timeoutChecker_tick ==
    /\ tc.pc = "select"
    /\ env.nTicks < scen.ticks
    /\ env' = [env EXCEPT !.nTicks = @ + 1, !.clientSeen = FALSE]
    /\ IF lastActive
       THEN /\ lastActive' = FALSE
            /\ tc' = [tc EXCEPT !.inactiveCount = 0]
       ELSE /\ UNCHANGED lastActive
            /\ tc' = IF tc.inactiveCount + 1 >= checksNeeded
                     THEN [tc EXCEPT !.inactiveCount = @ + 1, !.pc = "load"]
                     ELSE [tc EXCEPT !.inactiveCount = @ + 1]
    /\ UNCHANGED <<conf, stop, stopped, clientAddr, remoteConn, cpsCounter,
                   socks, run, sh, c2s, s2c, logs>>

timeoutChecker_load ==
    /\ tc.pc = "load"
    /\ tc' = IF remoteConn # NoConn
             THEN [tc EXCEPT !.pc = "close", !.rc = remoteConn]
             ELSE [tc EXCEPT !.pc = "select", !.inactiveCount = 0]
    /\ UNCHANGED <<conf, stop, shared, socks, run, sh, c2s, s2c, logs, env>>

\* Variant: the count is reset without Close.
timeoutChecker_close_skip ==
    /\ tc.pc = "close"
    /\ tc' = [pc |-> "select", inactiveCount |-> 0, rc |-> NoConn]
    /\ UNCHANGED <<conf, stop, shared, socks, run, sh, c2s, s2c, logs, env>>

timeoutChecker_close ==
    /\ tc.pc = "close"
    /\ closed' = closed \cup {tc.rc}
    /\ tc' = [pc |-> "select", inactiveCount |-> 0, rc |-> NoConn]
    /\ UNCHANGED <<conf, stop, shared, listenConn, dialed, run, sh, c2s, s2c, logs, env>>

(***************************************************************************)
(* What the session uses of the transform engine, of the CPS generator and *)
(* of the junk generator.                                                  *)
(***************************************************************************)
\* The switch of TransformOutbound: the kind of a packet with type field
\* msgType and length n, 0 for the default branch.
OutboundKind_anyLength(msgType, n) ==
    IF n < 4 THEN 0
    ELSE IF msgType = U32(wgHandshakeInit) THEN wgHandshakeInit
    ELSE IF msgType = U32(wgHandshakeResponse) /\ n = WgHandshakeResponseSize
    THEN wgHandshakeResponse
    ELSE IF msgType = U32(wgCookieReply) /\ n = WgCookieReplySize
    THEN wgCookieReply
    ELSE IF msgType = U32(wgTransportData) /\ n >= WgTransportMinSize
    THEN wgTransportData
    ELSE 0

\* Variant: a transport packet of any length is rewritten.
OutboundKind_shortTransport(msgType, n) ==
    IF n < 4 THEN 0
    ELSE IF msgType = U32(wgHandshakeInit) /\ n = WgHandshakeInitSize
    THEN wgHandshakeInit
    ELSE IF msgType = U32(wgHandshakeResponse) /\ n = WgHandshakeResponseSize
    THEN wgHandshakeResponse
    ELSE IF msgType = U32(wgCookieReply) /\ n = WgCookieReplySize
    THEN wgCookieReply
    ELSE IF msgType = U32(wgTransportData) THEN wgTransportData
    ELSE 0

\* The switch of TransformOutbound: the kind of a packet whose first four
\* bytes read as the uint32 msgType and whose length is n; 0 stands for the
\* packets that pass through (n < 4 and the default case).
OutboundKind(msgType, n) ==
    IF n < 4 THEN 0
    ELSE IF msgType = U32(wgHandshakeInit) /\ n = WgHandshakeInitSize
    THEN wgHandshakeInit
    ELSE IF msgType = U32(wgHandshakeResponse) /\ n = WgHandshakeResponseSize
    THEN wgHandshakeResponse
    ELSE IF msgType = U32(wgCookieReply) /\ n = WgCookieReplySize
    THEN wgCookieReply
    ELSE IF msgType = U32(wgTransportData) /\ n >= WgTransportMinSize
    THEN wgTransportData
    ELSE 0

\* Variant: sendJunk for every handshake-init, whatever Jc.
sendJunkOf_anyJc(msgType, n, Jc) ==
    OutboundKind(U32(msgType), n) = wgHandshakeInit

\* The sendJunk result of TransformOutbound.
sendJunkOf(msgType, n, Jc) ==
    OutboundKind(U32(msgType), n) = wgHandshakeInit /\ Jc > 0

RECURSIVE cpsFrom(_, _, _)
cpsFrom(templates, k, counter) ==
    IF k > 5 THEN <<>>
    ELSE IF ~templates[k] THEN cpsFrom(templates, k + 1, counter)
    ELSE <<[tmpl |-> k, counter |-> counter]>>
         \o cpsFrom(templates, k + 1, counter + 1)

\* Variant: the counter is advanced by the caller for each packet written,
\* not by the generator.
GenerateCPSPackets_noAdvance(templates, counter) ==
    [packets |-> cpsFrom(templates, 1, counter), counter |-> counter]

\* GenerateCPSPackets: one packet per non-nil template, each generated with the
\* counter and followed by counter++.
GenerateCPSPackets(templates, counter) ==
    LET packets == cpsFrom(templates, 1, counter)
    IN  [packets |-> packets, counter |-> counter + Len(packets)]

\* GenerateJunkPackets, as far as the session sees it: no packet when Jc or
\* Jmax is not positive, and otherwise Jc packets, numbered here.
GenerateJunkPackets(c) ==
    IF c.Jc <= 0 \/ c.Jmax <= 0 THEN <<>> ELSE [j \in 1..c.Jc |-> j]

\* Proxy.generateJunk of the batch loop: Jc packets when Jc > 0, and none
\* when Jc is 0.
generateJunk(c) == IF c.Jc > 0 THEN [j \in 1..c.Jc |-> j] ELSE <<>>

(***************************************************************************)
(* Writes on a remote socket.  A write on a closed socket fails; a write   *)
(* on an open socket succeeds, or fails when the network fails it.         *)
(***************************************************************************)
netCanFail == env.nErrs < scen.errs

WriteOutcomes(sock) ==
    IF sock \in closed THEN {FALSE}
    ELSE IF netCanFail THEN BOOLEAN ELSE {TRUE}

\* env after a write on sock with result ok
afterWrite(sock, ok) ==
    IF ~ok /\ sock \notin closed THEN [env EXCEPT !.nErrs = @ + 1] ELSE env

\* env after the write of one CPS packet on sock with result ok; nCps counts
\* the CPS packets the remote sockets have accepted.
afterCps(sock, ok) ==
    [afterWrite(sock, ok) EXCEPT !.nCps = @ + (IF ok THEN 1 ELSE 0)]

RemoteEntry(sock, kind, idx, id, ok) ==
    [sock |-> sock, kind |-> kind, idx |-> idx, id |-> id, ok |-> ok]

\* Variant: a nil client address is left as it is.
updateAddr_keepNil(cur, addr) == IF cur # NoAddr /\ cur # addr THEN addr ELSE cur

\* if cur := p.clientAddr.Load(); cur == nil || *cur != addr { Store(&a) }
\* The Load and the Store are one step: a Store by the other loop between
\* them has the effect of one just before this step.
updateAddr(cur, addr) == IF cur = NoAddr \/ cur # addr THEN addr ELSE cur

(***************************************************************************)
(* Proxy.clientToServer                                                    *)
(***************************************************************************)
\* ReadFromUDPAddrPort returns a datagram.
clientToServer_read ==
    /\ c2s.pc = "read"
    /\ listenConn = "open"
    /\ env.nClient < scen.clients
    /\ \E src \in Addrs, k \in ClientKinds :
          c2s' = [c2s EXCEPT !.pc = "updateAddr",
                             !.pkt = [id |-> env.nClient + 1, src |-> src,
                                      msgType |-> k.msgType, n |-> k.n]]
    /\ env' = [env EXCEPT !.nClient = @ + 1, !.clientSeen = TRUE]
    /\ remoteLog' = <<>>
    /\ UNCHANGED <<conf, stop, shared, socks, run, sh, tc, s2c, listenLog>>

\* ReadFromUDPAddrPort returns an error: the loop returns when the socket is
\* closed or stopped is set, and otherwise (an error of the network) logs it
\* and reads again.
clientToServer_readErr ==
    /\ c2s.pc = "read"
    /\ \/ /\ listenConn = "closed" \/ stopped
          /\ c2s' = [c2s EXCEPT !.pc = "done"]
          /\ UNCHANGED env
       \/ /\ listenConn = "open" /\ ~stopped /\ netCanFail
          /\ env' = [env EXCEPT !.nErrs = @ + 1]
          /\ UNCHANGED c2s
    /\ UNCHANGED <<conf, stop, shared, socks, run, sh, tc, s2c, logs>>

\* The client address update, the first statement after the receive.
clientToServer_updateAddr ==
    /\ c2s.pc = "updateAddr"
    /\ clientAddr' = updateAddr(clientAddr, c2s.pkt.src)
    /\ c2s' = [c2s EXCEPT !.pc = "transform"]
    /\ UNCHANGED <<conf, stop, stopped, lastActive, remoteConn, cpsCounter,
                   socks, run, sh, tc, s2c, logs, env>>

\* Variant: the junk loop runs before the CPS loop.
afterBurst_junkFirst(cps, junk) ==
    IF junk # <<>> THEN "junk" ELSE IF cps # <<>> THEN "cps" ELSE "out"

\* The position after the CPS loop or the junk loop.
afterBurst(cps, junk) ==
    IF cps # <<>> THEN "cps" ELSE IF junk # <<>> THEN "junk" ELSE "out"

\* remoteConn.Load, TransformOutbound and, when sendJunk, the packets of
\* GenerateCPSPackets and GenerateJunkPackets.
clientToServer_transform ==
    /\ c2s.pc = "transform"
    /\ LET sendJunk == sendJunkOf(c2s.pkt.msgType, c2s.pkt.n, cfg.Jc)
           g == GenerateCPSPackets(cfg.CPS, cpsCounter)
           junk == GenerateJunkPackets(cfg)
       IN  IF sendJunk
           THEN /\ cpsCounter' = g.counter
                /\ c2s' = [c2s EXCEPT !.pc = afterBurst(g.packets, junk),
                                      !.currentRemote = remoteConn,
                                      !.cps = g.packets, !.junk = junk]
           ELSE /\ UNCHANGED cpsCounter
                /\ c2s' = [c2s EXCEPT !.pc = "out", !.currentRemote = remoteConn]
    /\ UNCHANGED <<conf, stop, stopped, lastActive, clientAddr, remoteConn,
                   socks, run, sh, tc, s2c, logs, env>>

\* The CPS loop: one Write per packet, break on the first error.
clientToServer_writeCPS ==
    /\ c2s.pc = "cps"
    /\ \E ok \in WriteOutcomes(c2s.currentRemote) :
          LET rest == IF ok THEN Tail(c2s.cps) ELSE <<>>
          IN  /\ remoteLog' = Append(remoteLog,
                     RemoteEntry(c2s.currentRemote, "cps", Head(c2s.cps).tmpl,
                                 c2s.pkt.id, ok))
              /\ c2s' = [c2s EXCEPT !.cps = rest, !.pc = afterBurst(rest, c2s.junk)]
              /\ env' = afterCps(c2s.currentRemote, ok)
    /\ UNCHANGED <<conf, stop, shared, socks, run, sh, tc, s2c, listenLog>>

\* The junk loop: one Write per packet, break on the first error.
clientToServer_writeJunk ==
    /\ c2s.pc = "junk"
    /\ \E ok \in WriteOutcomes(c2s.currentRemote) :
          LET rest == IF ok THEN Tail(c2s.junk) ELSE <<>>
          IN  /\ remoteLog' = Append(remoteLog,
                     RemoteEntry(c2s.currentRemote, "junk", Head(c2s.junk),
                                 c2s.pkt.id, ok))
              /\ c2s' = [c2s EXCEPT !.junk = rest, !.pc = afterBurst(<<>>, rest)]
              /\ env' = afterWrite(c2s.currentRemote, ok)
    /\ UNCHANGED <<conf, stop, shared, socks, run, sh, tc, s2c, listenLog>>

\* currentRemote.Write(out); the loop goes on whatever the result.
clientToServer_writeOut ==
    /\ c2s.pc = "out"
    /\ \E ok \in WriteOutcomes(c2s.currentRemote) :
          /\ remoteLog' = Append(remoteLog,
                RemoteEntry(c2s.currentRemote, "pkt", 0, c2s.pkt.id, ok))
          /\ env' = afterWrite(c2s.currentRemote, ok)
    /\ c2s' = [c2sIdle EXCEPT !.pc = "read"]
    /\ UNCHANGED <<conf, stop, shared, socks, run, sh, tc, s2c, listenLog>>

(***************************************************************************)
(* sendBatch and sendSingle (batch_linux.go)                               *)
(***************************************************************************)
\* What a send slot holds: the datagram id of the client packet it was made
\* for, and which packet of that datagram's output it is.
Slot(kind, idx, id) == [kind |-> kind, idx |-> idx, id |-> id]

\* sendSingle copies data into bufs[0] and points msgs[0] at it, whatever is
\* queued there.  (Slots are numbered from 1 here.)  A slot that is not queued
\* is overwritten too, but is written again before it is ever sent.
sendSingleSlots(sendBS, data) ==
    IF Len(sendBS) >= 1 THEN [sendBS EXCEPT ![1] = data] ELSE sendBS

\* The results of one sendmmsg call on a remote socket for `remaining`
\* messages: 0 for an error, or the number of messages sent.
SendmmsgOutcomes(sock, remaining) ==
    IF sock \in closed THEN {0}
    ELSE (1..remaining) \cup (IF netCanFail THEN {0} ELSE {})

\* The log entries of a sendmmsg call that sent k of the slots after `total`;
\* an error is logged as a failed send of the first unsent slot.
sentEntries(sock, sendBS, total, k) ==
    IF k = 0
    THEN <<RemoteEntry(sock, sendBS[total + 1].kind, sendBS[total + 1].idx,
                       sendBS[total + 1].id, FALSE)>>
    ELSE [j \in 1..k |->
            RemoteEntry(sock, sendBS[total + j].kind, sendBS[total + j].idx,
                        sendBS[total + j].id, TRUE)]

(***************************************************************************)
(* Proxy.clientToServerBatch                                               *)
(***************************************************************************)
\* The batches recvmmsg can return when `most` datagrams are still to come.
ClientBatches(first, most) ==
    UNION { { [j \in 1..n |-> [id |-> first + j, src |-> srcs[j],
                               msgType |-> kinds[j].msgType, n |-> kinds[j].n]] :
                srcs \in [1..n -> Addrs], kinds \in [1..n -> ClientKinds] } :
            n \in 1..Min2(MaxBatch, most) }

\* recvBatch returns a batch; p.lastActive.Store(true).
clientToServerBatch_recv ==
    /\ c2s.pc = "bRead"
    /\ listenConn = "open"
    /\ env.nClient < scen.clients
    /\ \E msgs \in ClientBatches(env.nClient, scen.clients - env.nClient) :
          /\ c2s' = [c2s EXCEPT !.pc = "bLoad", !.msgs = msgs]
          /\ env' = [env EXCEPT !.nClient = @ + Len(msgs), !.clientSeen = TRUE]
    /\ lastActive' = TRUE
    /\ remoteLog' = <<>>
    /\ UNCHANGED <<conf, stop, stopped, clientAddr, remoteConn, cpsCounter,
                   socks, run, sh, tc, s2c, listenLog>>

\* recvBatch returns an error: the loop returns when the socket is closed or
\* stopped is set, and otherwise logs it and receives again.
clientToServerBatch_recvErr ==
    /\ c2s.pc = "bRead"
    /\ \/ /\ listenConn = "closed" \/ stopped
          /\ c2s' = [c2s EXCEPT !.pc = "done"]
          /\ UNCHANGED env
       \/ /\ listenConn = "open" /\ ~stopped /\ netCanFail
          /\ env' = [env EXCEPT !.nErrs = @ + 1]
          /\ UNCHANGED c2s
    /\ UNCHANGED <<conf, stop, shared, socks, run, sh, tc, s2c, logs>>

\* currentRemote := p.remoteConn.Load(); nSend := 0
clientToServerBatch_load ==
    /\ c2s.pc = "bLoad"
    /\ c2s' = [c2s EXCEPT !.pc = "bMsg", !.currentRemote = remoteConn,
                          !.i = 1, !.nSend = 0, !.sendBS = <<>>]
    /\ UNCHANGED <<conf, stop, shared, socks, run, sh, tc, s2c, logs, env>>

\* The position after message i of the batch, or after its burst.
afterMsg(i, n, nSend) ==
    IF i < n THEN "bMsg" ELSE IF nSend > 0 THEN "bSend" ELSE "bRead"

afterBurstBatch(cps, junk) ==
    IF cps # <<>> THEN "bCps" ELSE IF junk # <<>> THEN "bJunk" ELSE "bOut"

\* One iteration of the loop over the received messages: the client address
\* update, then the fast path, the burst of a handshake-init, or the queueing
\* of the transformed packet.
clientToServerBatch_msg ==
    /\ c2s.pc = "bMsg"
    /\ LET m == c2s.msgs[c2s.i]
           fast == cfg.h4NoOp /\ m.n >= WgTransportMinSize
                   /\ m.msgType = wgTransportData
           sendJunk == ~fast /\ sendJunkOf(m.msgType, m.n, cfg.Jc)
           g == GenerateCPSPackets(cfg.CPS, cpsCounter)
           junk == generateJunk(cfg)
           queued == Append(c2s.sendBS, Slot("pkt", 0, m.id))
       IN  /\ clientAddr' = updateAddr(clientAddr, m.src)
           /\ IF sendJunk
              THEN /\ cpsCounter' = g.counter
                   /\ c2s' = [c2s EXCEPT !.pc = afterBurstBatch(g.packets, junk),
                                         !.pkt = m, !.cps = g.packets,
                                         !.junk = junk]
              ELSE /\ UNCHANGED cpsCounter
                   /\ c2s' = [c2s EXCEPT
                          !.pc = afterMsg(c2s.i, Len(c2s.msgs), c2s.nSend + 1),
                          !.i = @ + 1, !.nSend = @ + 1, !.sendBS = queued]
    /\ UNCHANGED <<conf, stop, stopped, lastActive, remoteConn, socks, run, sh,
                   tc, s2c, logs, env>>

\* sendSingle(sendRaw, pkt, sendBS) for one CPS packet; the result is ignored.
clientToServerBatch_cps ==
    /\ c2s.pc = "bCps"
    /\ LET data == Slot("cps", Head(c2s.cps).tmpl, c2s.pkt.id)
       IN  \E ok \in WriteOutcomes(c2s.currentRemote) :
              /\ remoteLog' = Append(remoteLog,
                    RemoteEntry(c2s.currentRemote, "cps", data.idx, data.id, ok))
              /\ c2s' = [c2s EXCEPT !.cps = Tail(@),
                                    !.pc = afterBurstBatch(Tail(c2s.cps), c2s.junk),
                                    !.sendBS = sendSingleSlots(@, data)]
              /\ env' = afterCps(c2s.currentRemote, ok)
    /\ UNCHANGED <<conf, stop, shared, socks, run, sh, tc, s2c, listenLog>>

\* sendSingle(sendRaw, junk, sendBS) for one junk packet; the result is ignored.
clientToServerBatch_junk ==
    /\ c2s.pc = "bJunk"
    /\ LET data == Slot("junk", Head(c2s.junk), c2s.pkt.id)
       IN  \E ok \in WriteOutcomes(c2s.currentRemote) :
              /\ remoteLog' = Append(remoteLog,
                    RemoteEntry(c2s.currentRemote, "junk", data.idx, data.id, ok))
              /\ c2s' = [c2s EXCEPT !.junk = Tail(@),
                                    !.pc = afterBurstBatch(<<>>, Tail(c2s.junk)),
                                    !.sendBS = sendSingleSlots(@, data)]
              /\ env' = afterWrite(c2s.currentRemote, ok)
    /\ UNCHANGED <<conf, stop, shared, socks, run, sh, tc, s2c, listenLog>>

\* sendSingle(sendRaw, out, sendBS) for the transformed init; continue.
clientToServerBatch_out ==
    /\ c2s.pc = "bOut"
    /\ LET data == Slot("pkt", 0, c2s.pkt.id)
       IN  \E ok \in WriteOutcomes(c2s.currentRemote) :
              /\ remoteLog' = Append(remoteLog,
                    RemoteEntry(c2s.currentRemote, "pkt", 0, data.id, ok))
              /\ c2s' = IF afterMsg(c2s.i, Len(c2s.msgs), c2s.nSend) = "bRead"
                        THEN [c2sIdle EXCEPT !.pc = "bRead"]
                        ELSE [c2s EXCEPT
                                !.pc = afterMsg(c2s.i, Len(c2s.msgs), c2s.nSend),
                                !.i = @ + 1, !.pkt = NoPkt,
                                !.sendBS = sendSingleSlots(@, data)]
              /\ env' = afterWrite(c2s.currentRemote, ok)
    /\ UNCHANGED <<conf, stop, shared, socks, run, sh, tc, s2c, listenLog>>

\* sendBatch(sendRaw, sendBS, nSend): one sendmmsg call per step, from the
\* first unsent slot; the loop ends when all are sent or a call fails.
clientToServerBatch_send ==
    /\ c2s.pc = "bSend"
    /\ \E k \in SendmmsgOutcomes(c2s.currentRemote, c2s.nSend - c2s.total) :
          /\ remoteLog' = remoteLog \o
                sentEntries(c2s.currentRemote, c2s.sendBS, c2s.total, k)
          /\ c2s' = IF k = 0 \/ c2s.total + k = c2s.nSend
                    THEN [c2sIdle EXCEPT !.pc = "bRead"]
                    ELSE [c2s EXCEPT !.total = @ + k]
          /\ env' = afterWrite(c2s.currentRemote, k # 0)
    /\ UNCHANGED <<conf, stop, shared, socks, run, sh, tc, s2c, listenLog>>

(***************************************************************************)
(* Proxy.reconnectRemote, called by both server->client loops              *)
(***************************************************************************)
\* select { case <-stop: return nil; default: }
reconnectRemote_checkStop ==
    /\ s2c.pc = "rrCheck"
    /\ s2c' = IF stop THEN [s2c EXCEPT !.pc = "done"]
                      ELSE [s2c EXCEPT !.pc = "rrDial"]
    /\ UNCHANGED <<conf, stop, shared, socks, run, sh, tc, c2s, logs, env>>

\* ResolveUDPAddr and DialUDP: on success lastActive.Store(true), the backoff
\* is reset and the new socket returned; on failure the wait.
reconnectRemote_dial ==
    /\ s2c.pc = "rrDial"
    /\ \/ /\ dialed < MaxSock
          /\ dialed' = dialed + 1
          /\ lastActive' = TRUE
          /\ s2c' = [s2c EXCEPT !.pc = "closeOld", !.newConn = dialed + 1,
                                !.backoff = 1]
          /\ UNCHANGED env
       \/ /\ dialed = MaxSock \/ netCanFail
          /\ s2c' = [s2c EXCEPT !.pc = "rrWait"]
          /\ env' = IF dialed = MaxSock THEN env
                    ELSE [env EXCEPT !.nErrs = @ + 1]
          /\ UNCHANGED <<dialed, lastActive>>
    /\ UNCHANGED <<conf, stop, stopped, clientAddr, remoteConn, cpsCounter,
                   listenConn, closed, run, sh, tc, c2s, logs>>

\* Variant: the backoff is doubled without a cap.
reconnectRemote_wait_noCap ==
    /\ s2c.pc = "rrWait"
    /\ \/ /\ stop
          /\ s2c' = [s2c EXCEPT !.pc = "done"]
       \/ s2c' = [s2c EXCEPT !.pc = "rrCheck", !.backoff = 2 * @]
    /\ UNCHANGED <<conf, stop, shared, socks, run, sh, tc, c2s, logs, env>>

\* select { case <-stop: return nil; case <-timer.C: }, then the doubling of
\* the backoff, capped at maxBackoff.
reconnectRemote_wait ==
    /\ s2c.pc = "rrWait"
    /\ \/ /\ stop
          /\ s2c' = [s2c EXCEPT !.pc = "done"]
       \/ s2c' = [s2c EXCEPT !.pc = "rrCheck",
                                !.backoff = Min2(2 * @, maxBackoff)]
    /\ UNCHANGED <<conf, stop, shared, socks, run, sh, tc, c2s, logs, env>>

(***************************************************************************)
(* The reconnect sequence of serverToClient and serverToClientBatch        *)
(***************************************************************************)
\* A read on a remote socket fails: always when the socket is closed, and
\* when the network fails it.
remoteReadFails == s2c.currentRemote \in closed \/ netCanFail

afterReadErr ==
    IF s2c.currentRemote \in closed THEN env ELSE [env EXCEPT !.nErrs = @ + 1]

\* Variant: the loop returns on every read error.
serverToClient_errStopped_exit ==
    /\ s2c.pc = "errStopped"
    /\ s2c' = [s2c EXCEPT !.pc = "done"]
    /\ UNCHANGED <<conf, stop, shared, socks, run, sh, tc, c2s, logs, env>>

\* if p.stopped.Load() { return }
serverToClient_errStopped ==
    /\ s2c.pc = "errStopped"
    /\ s2c' = IF stopped THEN [s2c EXCEPT !.pc = "done"]
                         ELSE [s2c EXCEPT !.pc = "rrCheck"]
    /\ UNCHANGED <<conf, stop, shared, socks, run, sh, tc, c2s, logs, env>>

\* Variant: the old socket is dropped without Close.
serverToClient_closeOld_leak ==
    /\ s2c.pc = "closeOld"
    /\ s2c' = [s2c EXCEPT !.pc = "store", !.currentRemote = s2c.newConn]
    /\ UNCHANGED <<conf, stop, shared, socks, run, sh, tc, c2s, logs, env>>

\* Variant: Close is called on the new socket.
serverToClient_closeOld_new ==
    /\ s2c.pc = "closeOld"
    /\ closed' = closed \cup {s2c.newConn}
    /\ s2c' = [s2c EXCEPT !.pc = "store", !.currentRemote = s2c.newConn]
    /\ UNCHANGED <<conf, stop, shared, listenConn, dialed, run, sh, tc, c2s, logs, env>>

\* currentRemote.Close(); currentRemote = newConn
serverToClient_closeOld ==
    /\ s2c.pc = "closeOld"
    /\ closed' = closed \cup {s2c.currentRemote}
    /\ s2c' = [s2c EXCEPT !.pc = "store", !.currentRemote = s2c.newConn]
    /\ UNCHANGED <<conf, stop, shared, listenConn, dialed, run, sh, tc, c2s, logs, env>>

\* p.remoteConn.Store(newConn)
serverToClient_store ==
    /\ s2c.pc = "store"
    /\ remoteConn' = s2c.newConn
    /\ s2c' = [s2c EXCEPT !.pc = "storeActive"]
    /\ UNCHANGED <<conf, stop, stopped, lastActive, clientAddr, cpsCounter,
                   socks, run, sh, tc, c2s, logs, env>>

\* p.lastActive.Store(true)
serverToClient_storeActive ==
    /\ s2c.pc = "storeActive"
    /\ lastActive' = TRUE
    /\ s2c' = [s2c EXCEPT !.pc = "clearAddr"]
    /\ UNCHANGED <<conf, stop, stopped, clientAddr, remoteConn, cpsCounter,
                   socks, run, sh, tc, c2s, logs, env>>

\* p.clientAddr.Store(nil); in the batch loop also pktCount = 255
serverToClient_clearAddr ==
    /\ s2c.pc = "clearAddr"
    /\ clientAddr' = NoAddr
    /\ s2c' = [s2c EXCEPT !.pc = "chkStopped",
                          !.pktCount = IF batch THEN 255 ELSE @]
    /\ UNCHANGED <<conf, stop, stopped, lastActive, remoteConn, cpsCounter,
                   socks, run, sh, tc, c2s, logs, env>>

\* Variant: the loop continues without looking at stopped.
serverToClient_checkStopped_skip ==
    /\ s2c.pc = "chkStopped"
    /\ s2c' = [s2c EXCEPT !.pc = IF batch THEN "bRead" ELSE "read",
                          !.newConn = NoConn]
    /\ UNCHANGED <<conf, stop, shared, socks, run, sh, tc, c2s, logs, env>>

\* if p.stopped.Load() { newConn.Close(); return }; continue
serverToClient_checkStopped ==
    /\ s2c.pc = "chkStopped"
    /\ IF stopped
       THEN /\ closed' = closed \cup {s2c.newConn}
            /\ s2c' = [s2c EXCEPT !.pc = "done", !.newConn = NoConn]
       ELSE /\ UNCHANGED closed
            /\ s2c' = [s2c EXCEPT !.pc = IF batch THEN "bRead" ELSE "read",
                                  !.newConn = NoConn]
    /\ UNCHANGED <<conf, stop, shared, listenConn, dialed, run, sh, tc, c2s, logs, env>>

(***************************************************************************)
(* Proxy.serverToClient                                                    *)
(***************************************************************************)
\* Writes on the listen socket.
ListenWriteOutcomes ==
    IF listenConn # "open" THEN {FALSE}
    ELSE IF netCanFail THEN BOOLEAN ELSE {TRUE}

afterListenWrite(ok) ==
    IF ~ok /\ listenConn = "open" THEN [env EXCEPT !.nErrs = @ + 1] ELSE env

ListenEntry(id, addr, ok) == [id |-> id, addr |-> addr, ok |-> ok]

\* Variant: the datagram goes on to the write whatever TransformInbound
\* returned.
serverToClient_read_forward ==
    /\ s2c.pc = "read"
    /\ s2c.currentRemote \notin closed
    /\ env.nServer < scen.servers
    /\ \E valid \in BOOLEAN :
          s2c' = [s2c EXCEPT !.pc = "loadAddr",
                             !.backoff = 1,
                             !.pkt = [id |-> env.nServer + 1, valid |-> valid]]
    /\ lastActive' = TRUE
    /\ env' = [env EXCEPT !.nServer = @ + 1]
    /\ listenLog' = <<>>
    /\ UNCHANGED <<conf, stop, stopped, clientAddr, remoteConn, cpsCounter,
                   socks, run, sh, tc, c2s, remoteLog>>

\* currentRemote.Read returns a datagram; p.lastActive.Store(true); the
\* backoff is reset; TransformInbound finds the datagram valid or not.
serverToClient_read ==
    /\ s2c.pc = "read"
    /\ s2c.currentRemote \notin closed
    /\ env.nServer < scen.servers
    /\ \E valid \in BOOLEAN :
          s2c' = [s2c EXCEPT !.pc = IF valid THEN "loadAddr" ELSE "read",
                             !.backoff = 1,
                             !.pkt = IF valid
                                     THEN [id |-> env.nServer + 1, valid |-> TRUE]
                                     ELSE NoSrv]
    /\ lastActive' = TRUE
    /\ env' = [env EXCEPT !.nServer = @ + 1]
    /\ listenLog' = <<>>
    /\ UNCHANGED <<conf, stop, stopped, clientAddr, remoteConn, cpsCounter,
                   socks, run, sh, tc, c2s, remoteLog>>

\* currentRemote.Read returns an error.
serverToClient_readErr ==
    /\ s2c.pc = "read"
    /\ remoteReadFails
    /\ s2c' = [s2c EXCEPT !.pc = "errStopped"]
    /\ env' = afterReadErr
    /\ UNCHANGED <<conf, stop, shared, socks, run, sh, tc, c2s, logs>>

\* Variant: the nil check is missing.
hasClient_always(addr) == TRUE

\* if clientAddr != nil
hasClient(addr) == addr # NoAddr

\* clientAddr := p.clientAddr.Load(); a nil address drops the datagram, which
\* stays in buf until the next read.
serverToClient_loadAddr ==
    /\ s2c.pc = "loadAddr"
    /\ s2c' = IF hasClient(clientAddr)
              THEN [s2c EXCEPT !.pc = "write", !.addr = clientAddr]
              ELSE [s2c EXCEPT !.pc = "read"]
    /\ UNCHANGED <<conf, stop, shared, socks, run, sh, tc, c2s, logs, env>>

\* listenConn.WriteToUDPAddrPort(out, *clientAddr)
serverToClient_write ==
    /\ s2c.pc = "write"
    /\ \E ok \in ListenWriteOutcomes :
          /\ listenLog' = Append(listenLog, ListenEntry(s2c.pkt.id, s2c.addr, ok))
          /\ env' = afterListenWrite(ok)
    /\ s2c' = [s2c EXCEPT !.pc = "read", !.pkt = NoSrv, !.addr = NoAddr]
    /\ UNCHANGED <<conf, stop, shared, socks, run, sh, tc, c2s, remoteLog>>

(***************************************************************************)
(* Proxy.serverToClientBatch                                               *)
(***************************************************************************)
\* The batches recvmmsg can return on the remote socket.
ServerBatches(first, most) ==
    UNION { { [j \in 1..n |-> [id |-> first + j, valid |-> valids[j]]] :
                valids \in [1..n -> BOOLEAN] } :
            n \in 1..Min2(MaxBatch, most) }

\* recvBatch returns a batch; pktCount += uint8(nRecv), and
\* p.lastActive.Store(true) when the addition overflowed; the backoff is reset.
serverToClientBatch_recv ==
    /\ s2c.pc = "bRead"
    /\ s2c.currentRemote \notin closed
    /\ env.nServer < scen.servers
    /\ \E msgs \in ServerBatches(env.nServer, scen.servers - env.nServer) :
          LET nRecv == Len(msgs)
              pktCount == (s2c.pktCount + nRecv) % 256
          IN  /\ s2c' = [s2c EXCEPT !.pc = "bLoadAddr", !.msgs = msgs,
                                    !.pktCount = pktCount, !.backoff = 1]
              /\ lastActive' = IF pktCount < nRecv THEN TRUE ELSE lastActive
              /\ env' = [env EXCEPT !.nServer = @ + nRecv]
    /\ listenLog' = <<>>
    /\ UNCHANGED <<conf, stop, stopped, clientAddr, remoteConn, cpsCounter,
                   socks, run, sh, tc, c2s, remoteLog>>

\* recvBatch returns an error.
serverToClientBatch_recvErr ==
    /\ s2c.pc = "bRead"
    /\ remoteReadFails
    /\ s2c' = [s2c EXCEPT !.pc = "errStopped"]
    /\ env' = afterReadErr
    /\ UNCHANGED <<conf, stop, shared, socks, run, sh, tc, c2s, logs>>

\* clientAddr := p.clientAddr.Load(); a nil address drops the batch;
\* otherwise every valid datagram is queued for that address.
serverToClientBatch_loadAddr ==
    /\ s2c.pc = "bLoadAddr"
    /\ LET queued == SelectSeq(s2c.msgs, LAMBDA m : m.valid)
       IN  s2c' = IF ~hasClient(clientAddr)
                  THEN [s2c EXCEPT !.pc = "bRead"]
                  ELSE IF queued # <<>>
                  THEN [s2c EXCEPT !.pc = "bSend", !.addr = clientAddr,
                                   !.msgs = <<>>, !.sendBS = queued,
                                   !.nSend = Len(queued), !.total = 0]
                  ELSE [s2c EXCEPT !.pc = "bRead", !.msgs = <<>>]
    /\ UNCHANGED <<conf, stop, shared, socks, run, sh, tc, c2s, logs, env>>

\* The results of one sendmmsg call on the listen socket.
ListenSendmmsgOutcomes(remaining) ==
    IF listenConn # "open" THEN {0}
    ELSE (1..remaining) \cup (IF netCanFail THEN {0} ELSE {})

listenSentEntries(sendBS, addr, total, k) ==
    IF k = 0 THEN <<ListenEntry(sendBS[total + 1].id, addr, FALSE)>>
    ELSE [j \in 1..k |-> ListenEntry(sendBS[total + j].id, addr, TRUE)]

\* sendBatch(sendRaw, sendBS, nSend) on the listen socket.
serverToClientBatch_send ==
    /\ s2c.pc = "bSend"
    /\ \E k \in ListenSendmmsgOutcomes(s2c.nSend - s2c.total) :
          /\ listenLog' = listenLog \o
                listenSentEntries(s2c.sendBS, s2c.addr, s2c.total, k)
          /\ s2c' = IF k = 0 \/ s2c.total + k = s2c.nSend
                    THEN [s2c EXCEPT !.pc = "bRead", !.addr = NoAddr,
                                     !.sendBS = <<>>, !.nSend = 0, !.total = 0]
                    ELSE [s2c EXCEPT !.total = @ + k]
          /\ env' = afterListenWrite(k # 0)
    /\ UNCHANGED <<conf, stop, shared, socks, run, sh, tc, c2s, remoteLog>>

Next ==
    \/ closeStop
    \/ Run_listen \/ Run_dial \/ Run_exit
    \/ stopHandler_stopped \/ stopHandler_closeListen
    \/ stopHandler_load \/ stopHandler_close
    \/ timeoutChecker_stop \/ timeoutChecker_tick
    \/ timeoutChecker_load \/ timeoutChecker_close
    \/ clientToServer_read \/ clientToServer_readErr
    \/ clientToServer_updateAddr \/ clientToServer_transform
    \/ clientToServer_writeCPS \/ clientToServer_writeJunk
    \/ clientToServer_writeOut
    \/ clientToServerBatch_recv \/ clientToServerBatch_recvErr
    \/ clientToServerBatch_load \/ clientToServerBatch_msg
    \/ clientToServerBatch_cps \/ clientToServerBatch_junk
    \/ clientToServerBatch_out \/ clientToServerBatch_send
    \/ reconnectRemote_checkStop \/ reconnectRemote_dial \/ reconnectRemote_wait
    \/ serverToClient_errStopped \/ serverToClient_closeOld
    \/ serverToClient_store \/ serverToClient_storeActive
    \/ serverToClient_clearAddr \/ serverToClient_checkStopped
    \/ serverToClient_read \/ serverToClient_readErr
    \/ serverToClient_loadAddr \/ serverToClient_write
    \/ serverToClientBatch_recv \/ serverToClientBatch_recvErr
    \/ serverToClientBatch_loadAddr \/ serverToClientBatch_send

Spec == Init /\ [][Next]_vars

(***************************************************************************)
(* The session under fair scheduling: every goroutine that can take a step *)
(* eventually takes one.  The environment owes nothing: the stop channel   *)
(* need never be closed.                                                   *)
(***************************************************************************)
runNext == Run_listen \/ Run_dial \/ Run_exit

shNext ==
    \/ stopHandler_stopped \/ stopHandler_closeListen
    \/ stopHandler_load \/ stopHandler_close

tcNext ==
    \/ timeoutChecker_stop \/ timeoutChecker_tick
    \/ timeoutChecker_load \/ timeoutChecker_close

c2sNext ==
    \/ clientToServer_read \/ clientToServer_readErr
    \/ clientToServer_updateAddr \/ clientToServer_transform
    \/ clientToServer_writeCPS \/ clientToServer_writeJunk
    \/ clientToServer_writeOut
    \/ clientToServerBatch_recv \/ clientToServerBatch_recvErr
    \/ clientToServerBatch_load \/ clientToServerBatch_msg
    \/ clientToServerBatch_cps \/ clientToServerBatch_junk
    \/ clientToServerBatch_out \/ clientToServerBatch_send

s2cNext ==
    \/ reconnectRemote_checkStop \/ reconnectRemote_dial \/ reconnectRemote_wait
    \/ serverToClient_errStopped \/ serverToClient_closeOld
    \/ serverToClient_store \/ serverToClient_storeActive
    \/ serverToClient_clearAddr \/ serverToClient_checkStopped
    \/ serverToClient_read \/ serverToClient_readErr
    \/ serverToClient_loadAddr \/ serverToClient_write
    \/ serverToClientBatch_recv \/ serverToClientBatch_recvErr
    \/ serverToClientBatch_loadAddr \/ serverToClientBatch_send

Fairness ==
    /\ WF_vars(runNext)
    /\ WF_vars(shNext)
    /\ WF_vars(tcNext)
    /\ WF_vars(c2sNext)
    /\ WF_vars(s2cNext)

\* The runs in which the environment may close the stop channel.
InitStop == Init /\ scen.stop

SpecFair == InitStop /\ [][Next]_vars /\ Fairness

(***************************************************************************)
(* Properties of the session.                                              *)
(***************************************************************************)
sendsJunk(pkt) == sendJunkOf(pkt.msgType, pkt.n, cfg.Jc)

\* The writes of log made for client datagram id.
ofDatagram(log, id) == SelectSeq(log, LAMBDA e : e.id = id)

\* The complete burst of an init with the given id on sock.
ExpectedBurst(sock, id) ==
    LET g == cpsFrom(cfg.CPS, 1, 0)
    IN  [k \in 1..Len(g) |-> RemoteEntry(sock, "cps", g[k].tmpl, id, TRUE)]
        \o [j \in 1..cfg.Jc |-> RemoteEntry(sock, "junk", j, id, TRUE)]
        \o <<RemoteEntry(sock, "pkt", 0, id, TRUE)>>

\* The place of a write in a burst: templates I1..I5, then the junk packets,
\* then the transformed packet.
Rank(e) ==
    IF e.kind = "cps" THEN e.idx
    ELSE IF e.kind = "junk" THEN 5 + e.idx
    ELSE 6 + cfg.Jc

InBurstOrder(b) ==
    /\ b # <<>>
    /\ b[Len(b)].kind = "pkt"
    /\ \A i, j \in 1..Len(b) : i < j => Rank(b[i]) < Rank(b[j])

\* The step that writes the transformed handshake-init of a burst.
writesInit ==
    /\ c2s.pc \in {"out", "bOut"}
    /\ sendsJunk(c2s.pkt)
    /\ remoteLog' # remoteLog

BurstWritten ==
    LET b == ofDatagram(remoteLog', c2s.pkt.id)
        n == Len(remoteLog')
    IN  /\ InBurstOrder(b)
        /\ b = SubSeq(remoteLog', n - Len(b) + 1, n)
        /\ \A i \in 1..Len(b) : b[i].sock = c2s.currentRemote
        /\ (\A i \in 1..Len(b) : b[i].ok)
              => b = ExpectedBurst(c2s.currentRemote, c2s.pkt.id)

C2_ReceiveOrder ==
    \A i, j \in 1..Len(remoteLog) :
        (/\ i < j
         /\ remoteLog[i].kind = "pkt" /\ remoteLog[i].ok
         /\ remoteLog[j].kind = "pkt" /\ remoteLog[j].ok)
        => remoteLog[i].id <= remoteLog[j].id

\* C3: a step of the server->client loop writes on the listen socket only
\* to the client address it loaded for that datagram, which was set; when
\* the address it loads is unset, the datagram is dropped without a write.
C3_WriteNeedsClient ==
    [][/\ listenLog' # listenLog /\ listenLog' # <<>>
          => /\ s2c.addr # NoAddr
             /\ \A i \in 1..Len(listenLog') : listenLog'[i].addr # NoAddr
             /\ listenLog'[Len(listenLog')].addr = s2c.addr
       /\ (s2c.pc \in {"loadAddr", "bLoadAddr"} /\ s2c' # s2c
           /\ clientAddr = NoAddr)
          => /\ s2c'.pc \in {"read", "bRead"}
             /\ listenLog' = listenLog]_vars

\* A valid server datagram was read after a reconnect and dropped: it is
\* still in the buffer, nothing was written, and no client is known.
C3_Witness ==
    /\ s2c.pc = "read"
    /\ s2c.pkt.valid
    /\ listenLog = <<>>
    /\ clientAddr = NoAddr
    /\ dialed = 2

C5_NoFalseTimeout ==
    [][(tc.pc = "select" /\ tc'.pc = "load") => ~env.clientSeen]_vars

Terminated ==
    /\ run.pc = "returned"
    /\ sh.pc \in {"idle", "done"}
    /\ tc.pc \in {"idle", "done"}
    /\ c2s.pc \in {"idle", "done"}
    /\ s2c.pc \in {"idle", "done"}

\* C6: once the stop channel is closed, the stop handler, the timeout
\* checker and both loops terminate and Run returns.
C6_StopTerminates == stop ~> Terminated

\* Run has returned after a stop that came when a second socket was dialed.
C6_Witness ==
    /\ Terminated
    /\ stop
    /\ ~run.err
    /\ dialed = 2

\* C7: when Run has returned, the listen socket is closed (or was never
\* opened) and every remote socket that was dialed is closed.
C7_AllClosed ==
    run.pc = "returned"
        => /\ listenConn # "open"
           /\ \A s \in 1..dialed : s \in closed

\* Run has returned after a reconnect whose failed read left the old socket
\* open until the loop closed it.
C7_Witness ==
    /\ run.pc = "returned"
    /\ ~run.err
    /\ dialed = 2
    /\ env.nErrs = 1

\* the datagrams the server->client loop holds for which TransformInbound
\* returned valid = true
HeldValid ==
    (IF s2c.pkt.valid THEN {s2c.pkt.id} ELSE {})
    \cup {s2c.sendBS[j].id : j \in {i \in 1..Len(s2c.sendBS) : s2c.sendBS[i].valid}}

\* C12: a server datagram for which TransformInbound returns valid = false
\* is never forwarded: every write on the listen socket is of a datagram
\* found valid, and after reading an invalid datagram the server->client
\* loop is at its read again.
C12_InvalidNeverForwarded ==
    [][ /\ Len(listenLog') > Len(listenLog) =>
             \A i \in (Len(listenLog) + 1)..Len(listenLog') :
                 listenLog'[i].id \in HeldValid
        /\ (~batch /\ env'.nServer > env.nServer /\ ~s2c'.pkt.valid) =>
             s2c'.pc = "read" ]_vars

\* a batch of two datagrams of which the first was forwarded and the second,
\* found invalid, was not
C12_Witness ==
    /\ batch
    /\ s2c.pc = "bRead"
    /\ env.nServer = 2
    /\ Len(listenLog) = 1
    /\ listenLog[1].id = 1
    /\ listenLog[1].ok

\* the writes on a remote socket that a step issues
NewWrites ==
    { remoteLog'[i] : i \in (Len(remoteLog) + 1)..Len(remoteLog') }

\* the step in which the reconnecting task calls Close on the old socket
reconnectCloses == s2c.pc = "closeOld" /\ s2c'.pc = "store"

\* the step in which the reconnecting task stores the new socket
reconnectStores == s2c.pc = "store" /\ s2c'.pc = "storeActive"

\* a step in which another task calls Close on remote socket s
otherCloses(s) ==
    \/ sh.pc = "close" /\ sh'.pc = "done" /\ sh.rc = s
    \/ tc.pc = "close" /\ tc'.pc = "select" /\ tc.rc = s
    \/ run.pc = "wait" /\ run'.pc = "returned" /\ remoteConn = s

\* s has been replaced in remoteConn, or is the socket the reconnecting task
\* has closed and is about to replace
Replaced(s) == s < remoteConn \/ (s2c.pc = "store" /\ s = remoteConn)

\* a server->client loop receives in this step
remoteReceives == env'.nServer > env.nServer

\* C21 as stated: each write on a remote socket goes to the socket that
\* remoteConn holds when the write is issued.
C21_AsStated == [][\A e \in NewWrites : e.sock = remoteConn]_vars

\* C21: no datagram is received from or delivered to a remote socket after
\* remoteConn has been replaced by a newer socket: each write issued after
\* the new socket was stored goes to the new socket, or is issued on the
\* replaced socket, which is closed, and fails; the server->client loop
\* receives on the socket remoteConn holds.
C21_NoTrafficOnReplaced ==
    [][ /\ \A e \in NewWrites :
              \/ e.sock = remoteConn
              \/ e.sock < remoteConn /\ e.sock \in closed /\ ~e.ok
        /\ remoteReceives =>
              s2c.currentRemote = remoteConn /\ remoteConn \notin closed ]_vars

\* a burst that was begun on socket 1: a write of it has failed and the
\* transformed init is still to be written on socket 1, while remoteConn
\* holds socket 2
C21_Witness ==
    /\ c2s.pc = "out"
    /\ c2s.currentRemote = 1
    /\ remoteConn = 2
    /\ remoteLog # <<>>
    /\ remoteLog[Len(remoteLog)].sock = 1
    /\ ~remoteLog[Len(remoteLog)].ok

\* C22 as stated: Close is invoked one time only on a socket that a
\* reconnect replaces: the reconnecting task closes a socket nobody has
\* closed, and no other task calls Close on a socket that has been replaced.
C22_AsStated ==
    [][ /\ reconnectCloses => s2c.currentRemote \notin closed
        /\ \A s \in 1..dialed : otherCloses(s) => ~Replaced(s) ]_vars

\* C22: the reconnecting task closes every remote socket it replaces
\* exactly once: it calls Close on the socket remoteConn holds, having
\* dialed a newer one, and the only change of remoteConn is the store of
\* that newer socket after this Close.  (The timeout checker and the stop
\* handler may call Close on the same socket as well.)
C22_ClosedOnceByReconnect ==
    [][ /\ reconnectCloses =>
              /\ s2c.currentRemote = remoteConn
              /\ s2c.newConn > remoteConn
              /\ s2c'.currentRemote = s2c.newConn
        /\ (remoteConn' # remoteConn /\ remoteConn # NoConn) =>
              /\ reconnectStores
              /\ remoteConn \in closed
              /\ remoteConn' = s2c.newConn
              /\ remoteConn' \notin closed ]_vars

\* a reconnect that the timeout checker caused: no read or write was failed
\* by the network and stop is not closed, and socket 1 has been closed and
\* replaced
C22_Witness ==
    /\ remoteConn = 2
    /\ 1 \in closed
    /\ 2 \notin closed
    /\ ~stop
    /\ env.nErrs = 0
    /\ env.nTicks >= 2
    /\ s2c.pc \in {"read", "bRead"}

\* C23: on reconnect the new socket is stored in remoteConn before Close is
\* called on the old one, and a client->server loop never loads from
\* remoteConn a socket that the reconnecting task has closed.
C23_StoreThenClose ==
    [][ /\ reconnectCloses => remoteConn = s2c.newConn
        /\ (c2s.pc \in {"transform", "bLoad"} /\ c2s'.pc # c2s.pc) =>
              s2c.pc # "store" ]_vars

\* the transformed packets in log that were written with success
Delivered(log) == SelectSeq(log, LAMBDA e : e.kind = "pkt" /\ e.ok)

\* C24: in clientToServerBatch a queued send slot keeps the packet it was
\* queued with until the send batch is sent, also when sendSingle is called
\* for the burst of a handshake-init later in the same batch, and no
\* datagram's transformed packet is written twice.
C24_BatchSlotsKept ==
    [][ batch =>
          /\ \A j \in 1..Len(c2s.sendBS) :
                j <= Len(c2s'.sendBS) => c2s'.sendBS[j] = c2s.sendBS[j]
          /\ LET d == Delivered(remoteLog')
             IN  \A i, j \in 1..Len(d) : i < j => d[i].id # d[j].id ]_vars

\* a client->server loop receives in this step
listenReceives == env'.nClient > env.nClient

\* a server->client loop receives in this step a datagram that
\* TransformInbound finds valid
remoteReceivesValid ==
    /\ remoteReceives
    /\ \/ s2c'.pkt.valid
       \/ \E j \in 1..Len(s2c'.msgs) : s2c'.msgs[j].valid

\* C25: when either client->server loop receives a datagram, and when either
\* server->client loop receives a valid datagram, the loop stores true in
\* lastActive: the flag is true after the step, however many datagrams were
\* handled before.
C25_ReceiveSetsLastActive ==
    [][(listenReceives \/ remoteReceivesValid) => lastActive']_vars

\* the ticker delivers a tick to the timeout checker in this step
tickStep == env'.nTicks > env.nTicks

\* the timeout checker calls Close in this step
timeoutCloses == tc.pc = "close" /\ tc'.pc = "select"

\* max(1, Timeout/5), a Timeout that is not positive counting as 180
ChecksOf(timeout) ==
    LET n == (IF timeout <= 0 THEN 180 ELSE timeout) \div 5
    IN  IF n >= 1 THEN n ELSE 1

\* C26: a tick that finds lastActive true sets it to false and the count of
\* inactive ticks to zero; a tick that finds it false adds one to the count
\* and makes the checker close the socket exactly when the count has reached
\* max(1, Timeout/5); the checker calls Close only after such a tick, and
\* the count is zero after each Close.  (So the count, which a tick raises
\* by one at most, must reach max(1, Timeout/5) anew between two closes.)
C26_TimeoutAfterInactiveTicks ==
    [][ /\ (tickStep /\ lastActive) =>
              /\ ~lastActive'
              /\ tc'.inactiveCount = 0
              /\ tc'.pc = "select"
        /\ (tickStep /\ ~lastActive) =>
              /\ ~lastActive'
              /\ tc'.inactiveCount = tc.inactiveCount + 1
              /\ tc'.pc = "load" <=> tc'.inactiveCount >= ChecksOf(cfg.Timeout)
              /\ tc'.pc \in {"load", "select"}
        /\ tc.pc \in {"load", "close"} =>
              tc.inactiveCount >= ChecksOf(cfg.Timeout)
        /\ (tc.pc = "load" /\ tc'.pc = "close") => tc'.rc = remoteConn
        /\ timeoutCloses => tc'.inactiveCount = 0 /\ tc.rc \in closed'
        /\ (~tickStep /\ ~timeoutCloses /\ tc'.pc # "select") =>
              tc'.inactiveCount = tc.inactiveCount ]_vars

\* the second close by the checker: the third tick, under a Timeout of 5 s,
\* has found lastActive false again after the close that followed the
\* second tick
C26_Witness ==
    /\ tc.pc = "close"
    /\ cfg.Timeout = 5
    /\ tc.inactiveCount = 1
    /\ env.nTicks = 3
    /\ 1 \in closed
    /\ env.nErrs = 0
    /\ ~stop

\* no dial can succeed any more: the reconnect goes on for ever
DialsExhausted ==
    dialed = MaxSock /\ s2c.pc \in {"rrCheck", "rrDial", "rrWait"}

\* C27: when the timeout checker has decided that the server side is dead
\* while remoteConn holds socket s and stop is not closed, then under fair
\* scheduling the server->client loop replaces socket s in remoteConn by a
\* newly dialed one, unless stop is closed or no dial succeeds any more;
\* also when the reconnect was already in progress at the decision.
C27_TimeoutLeadsToReconnect ==
    \A s \in 1..MaxSock :
        (tc.pc = "load" /\ remoteConn = s /\ ~stop)
            ~> (remoteConn > s \/ stop \/ DialsExhausted)

\* the checker has loaded socket 1 and is about to close it while the
\* server->client loop, whose read had failed, has dialed socket 2 and not
\* yet stored it
C27_Witness ==
    /\ tc.pc = "close"
    /\ tc.rc = 1
    /\ remoteConn = 1
    /\ s2c.pc \in {"closeOld", "store"}
    /\ s2c.newConn = 2
    /\ ~stop

\* the server->client loop is inside reconnectRemote
InReconnect == s2c.pc \in {"rrCheck", "rrDial", "rrWait"}

\* C28: the backoff is between 1 s and 30 s at all times; it is 1 s at the
\* start, a wait that ends by its timer doubles it up to 30 s, a dial that
\* succeeds and every receive on the remote socket set it to 1 s, and no
\* other step changes it; reconnectRemote returns without a socket when it
\* finds stop closed at the start of an attempt, and it leaves a wait
\* without a socket only when stop is closed.
C28_BackoffBounds ==
    /\ [](s2c.backoff >= 1 /\ s2c.backoff <= 30)
    /\ [](s2c.pc = "idle" => s2c.backoff = 1)
    /\ [][ /\ (s2c.pc = "rrWait" /\ s2c'.pc = "rrCheck") =>
                 s2c'.backoff = (IF 2 * s2c.backoff > 30 THEN 30
                                 ELSE 2 * s2c.backoff)
           /\ (s2c.pc = "rrDial" /\ s2c'.pc = "closeOld") =>
                 s2c'.backoff = 1 /\ dialed' = dialed + 1
           /\ (s2c.pc = "rrDial" /\ s2c'.pc = "rrWait") =>
                 s2c'.backoff = s2c.backoff /\ dialed' = dialed
           /\ remoteReceives => s2c'.backoff = 1
           /\ (~remoteReceives /\ s2c.pc \notin {"rrWait", "rrDial"}) =>
                 s2c'.backoff = s2c.backoff
           /\ (s2c.pc = "rrCheck" /\ stop /\ s2c' # s2c) =>
                 s2c'.pc = "done" /\ dialed' = dialed
           /\ (InReconnect /\ s2c'.pc = "done") => stop /\ dialed' = dialed
        ]_vars

\* the fifth wait in a row has ended by its timer: 16 s became 30 s
C28_Witness ==
    /\ s2c.pc = "rrCheck"
    /\ s2c.backoff = 30
    /\ ~stop

\* the writes on the listen socket that a step issues
NewListenWrites ==
    { listenLog'[i] : i \in (Len(listenLog) + 1)..Len(listenLog') }

\* neither loop has returned unless stop is closed, and Run has returned an
\* error only when the bind or the first dial failed, before any loop ran
LoopsOutliveErrors ==
    /\ (c2s.pc = "done" \/ s2c.pc = "done") => stop
    /\ run.pc = "returned" =>
          IF run.err
          THEN dialed = 0 /\ c2s.pc = "idle" /\ s2c.pc = "idle"
          ELSE stop /\ c2s.pc = "done" /\ s2c.pc = "done"

\* what the loops do in the step of an error
ErrorsHandled ==
    \* a receive error on the remote socket leads to a reconnect
    /\ (s2c.pc \in {"read", "bRead"} /\ s2c'.pc # s2c.pc /\ ~remoteReceives) =>
          s2c'.pc = "errStopped"
    /\ (s2c.pc = "errStopped" /\ s2c' # s2c /\ ~stopped) => s2c'.pc = "rrCheck"
    \* a receive error on the listen socket: the loop receives again
    /\ (c2s.pc \in {"read", "bRead"} /\ env'.nErrs > env.nErrs /\ c2s'.pc # "done"
        /\ s2c' = s2c) => c2s' = c2s
    \* a send error: the loop goes on
    /\ (\E e \in NewWrites : ~e.ok) =>
          c2s'.pc \in {"read", "cps", "junk", "out",
                       "bRead", "bMsg", "bCps", "bJunk", "bOut", "bSend"}
    /\ (\E e \in NewListenWrites : ~e.ok) => s2c'.pc \in {"read", "bRead"}

\* a send batch that a failed sendmmsg ends held one unsent datagram
OneDatagramLost ==
    /\ (c2s.pc = "bSend" /\ c2s'.pc = "bRead" /\ \E e \in NewWrites : ~e.ok) =>
          c2s.nSend - c2s.total <= 1
    /\ (s2c.pc = "bSend" /\ s2c'.pc = "bRead"
        /\ \E e \in NewListenWrites : ~e.ok) =>
          s2c.nSend - s2c.total <= 1

\* C29 as stated: besides what C29 says, a send error costs one datagram
\* at most.
C29_AsStated ==
    []LoopsOutliveErrors /\ [][ErrorsHandled /\ OneDatagramLost]_vars

\* C29: neither direction loop returns before stop is closed: a receive
\* error on the remote socket leads to a reconnect, after a receive error on
\* the listen socket the loop receives again, after a send error on either
\* socket the loop goes on (a send batch that a failed sendmmsg ends is
\* dropped with all the datagrams still unsent in it); Run returns an error
\* only when the initial bind or dial fails.
C29_LoopsOutliveErrors ==
    []LoopsOutliveErrors /\ [][ErrorsHandled]_vars

\* a batch of two client datagrams was queued and dropped by a failed
\* sendmmsg, and the loop is receiving again
C29_Witness ==
    /\ batch
    /\ ~stop
    /\ c2s.pc = "bRead"
    /\ env.nClient = 2
    /\ Len(remoteLog) = 1
    /\ remoteLog[1].id = 1
    /\ remoteLog[1].kind = "pkt"
    /\ ~remoteLog[1].ok

\* C30: after a CPS or junk packet of a burst failed to be written, no
\* further CPS or junk packet of the same burst is written: the only write
\* that follows for that handshake is the one of its transformed packet.
C30_BurstAbandoned ==
    \A i, j \in 1..Len(remoteLog) :
        (/\ i < j
         /\ remoteLog[i].kind \in {"cps", "junk"}
         /\ ~remoteLog[i].ok
         /\ remoteLog[j].id = remoteLog[i].id)
        => remoteLog[j].kind = "pkt"

\* the number of configured CPS templates
cpsConfigured == Cardinality({k \in 1..5 : cfg.CPS[k]})

\* the client->server loop is between two datagrams
c2sBetween == c2s.pc \in {"read", "bRead"}

\* the client->server loop handles a handshake-init that starts a burst
burstStarts ==
    \/ /\ c2s.pc = "transform"
       /\ c2s'.pc # "transform"
       /\ sendJunkOf(c2s.pkt.msgType, c2s.pkt.n, cfg.Jc)
    \/ /\ c2s.pc = "bMsg"
       /\ c2s'.pc \in {"bCps", "bJunk", "bOut"}

C32_NoCpsWithoutJc ==
    cfg.Jc = 0 =>
        /\ cpsCounter = 0
        /\ env.nCps = 0
        /\ c2s.cps = <<>> /\ c2s.junk = <<>>
        /\ c2s.pc \notin {"cps", "junk", "bCps", "bJunk", "bOut"}
        /\ \A i \in 1..Len(remoteLog) : remoteLog[i].kind = "pkt"
        /\ \A i, j \in 1..Len(remoteLog) :
              i # j => remoteLog[i].id # remoteLog[j].id

\* with Jc = 0 and templates I1 and I3 configured, a handshake-init has been
\* transformed and is about to be written, nothing written before it
C32_Witness ==
    /\ cfg.Jc = 0
    /\ cpsConfigured = 2
    /\ c2s.pc = "out"
    /\ c2s.pkt.msgType = wgHandshakeInit
    /\ c2s.pkt.n = WgHandshakeInitSize
    /\ remoteLog = <<>>

\* the client->server loop runs the address update of the datagram it holds
addrUpdate ==
    /\ c2s.pc \in {"updateAddr", "bMsg"}
    /\ c2s' # c2s

\* the source address of the datagram the address update is about
addrSource ==
    IF c2s.pc = "bMsg" THEN c2s.msgs[c2s.i].src ELSE c2s.pkt.src

\* the server->client loop loads the client address for what it has received
addrLoad ==
    /\ s2c.pc \in {"loadAddr", "bLoadAddr"}
    /\ s2c'.pc \in {"write", "bSend"}

blake2sIV ==
    << <<27145, 58983>>, <<47975, 44677>>, <<15470, 62322>>, <<42319, 62778>>,
       <<20750, 21119>>, <<39685, 26764>>, <<8067, 55723>>, <<23520, 52505>> >>

blake2sSigma ==
    << <<0, 1, 2, 3, 4, 5, 6, 7, 8, 9, 10, 11, 12, 13, 14, 15>>,
       <<14, 10, 4, 8, 9, 15, 13, 6, 1, 12, 0, 2, 11, 7, 5, 3>>,
       <<11, 8, 12, 0, 5, 2, 15, 13, 10, 14, 3, 6, 7, 1, 9, 4>>,
       <<7, 9, 3, 1, 13, 12, 11, 14, 2, 6, 5, 10, 4, 0, 15, 8>>,
       <<9, 0, 5, 7, 2, 4, 10, 15, 14, 1, 11, 12, 6, 8, 3, 13>>,
       <<2, 12, 6, 10, 0, 11, 8, 3, 4, 13, 7, 5, 15, 14, 1, 9>>,
       <<12, 5, 1, 15, 14, 13, 4, 10, 0, 7, 6, 3, 9, 2, 8, 11>>,
       <<13, 11, 7, 14, 12, 1, 3, 9, 5, 0, 15, 4, 8, 6, 2, 10>>,
       <<6, 15, 14, 9, 11, 3, 0, 8, 12, 2, 13, 7, 1, 4, 10, 5>>,
       <<10, 2, 8, 4, 7, 6, 1, 5, 15, 11, 9, 14, 3, 12, 13, 0>> >>

\* Every operator below that uses an intermediate result more than once
\* names it as the member of a one-element set: CHOOSE r \in {e(x) : x \in
\* {d}} : TRUE is e(d) with d computed once.

\* one half of blake2sG on the words s = <<v[a], v[b], v[c], v[d]>>:
\*   v[a] = v[a] + v[b] + x;  v[d] = rotr32(v[d]^v[a], r1)
\*   v[c] = v[c] + v[d];      v[b] = rotr32(v[b]^v[c], r2)
blake2sMix(s, x, r1, r2) ==
    LET a1 == Add32(Add32(s[1], s[2]), x)
        d1 == rotr32(Xor32(s[4], a1), r1)
        c1 == Add32(s[3], d1)
        b1 == rotr32(Xor32(s[2], c1), r2)
    IN  <<a1, b1, c1, d1>>

\* blake2sG on v[a], v[b], v[c], v[d] (Go indices) with message words x, y
blake2sG(v, a, b, c, d, x, y) ==
    CHOOSE r \in
        { [v EXCEPT ![a + 1] = q[1], ![b + 1] = q[2],
                    ![c + 1] = q[3], ![d + 1] = q[4]] :
            q \in { blake2sMix(p, y, 8, 7) :
                p \in { blake2sMix(<<v[a + 1], v[b + 1], v[c + 1], v[d + 1]>>,
                                   x, 16, 12) } } } : TRUE

\* round i of blake2sCompress: the eight calls of blake2sG, first to last
blake2sRound(v, m, i) ==
    LET w(k) == m[blake2sSigma[i + 1][k + 1] + 1]
    IN  CHOOSE r \in
        { blake2sG(v7, 3, 4, 9, 14, w(14), w(15)) : v7 \in
        { blake2sG(v6, 2, 7, 8, 13, w(12), w(13)) : v6 \in
        { blake2sG(v5, 1, 6, 11, 12, w(10), w(11)) : v5 \in
        { blake2sG(v4, 0, 5, 10, 15, w(8), w(9)) : v4 \in
        { blake2sG(v3, 3, 7, 11, 15, w(6), w(7)) : v3 \in
        { blake2sG(v2, 2, 6, 10, 14, w(4), w(5)) : v2 \in
        { blake2sG(v1, 1, 5, 9, 13, w(2), w(3)) : v1 \in
        { blake2sG(v, 0, 4, 8, 12, w(0), w(1)) } } } } } } } } : TRUE

\* for i := 0; i < 10; i++ { ... }
RECURSIVE blake2sRounds(_, _, _)
blake2sRounds(v, m, i) ==
    IF i < 10
    THEN CHOOSE r \in { blake2sRounds(v1, m, i + 1) :
                         v1 \in {blake2sRound(v, m, i)} } : TRUE
    ELSE v

\* blake2sCompress: the new h
blake2sCompress(h, block, t0, t1, last) ==
    CHOOSE r \in
        { [i \in 1..8 |-> Xor32(h0[i], Xor32(v[i], v[i + 8]))] :
            h0 \in {h},
            v \in { blake2sRounds(v0, m, 0) :
                v0 \in { << h[1], h[2], h[3], h[4], h[5], h[6], h[7], h[8],
                            blake2sIV[1], blake2sIV[2], blake2sIV[3],
                            blake2sIV[4],
                            Xor32(t0, blake2sIV[5]), Xor32(t1, blake2sIV[6]),
                            IF last THEN Xor32(blake2sIV[7], <<65535, 65535>>)
                                    ELSE blake2sIV[7],
                            blake2sIV[8] >> },
                m \in { [k \in 1..16 |-> LEUint32(blk, 4 * (k - 1))] :
                          blk \in {block} } } } : TRUE

\* blake2sInit(nn, key).  Besides the fields of blake2sState the state
\* keeps calls, the arguments of the blake2sCompress calls its updates have
\* made, first to last.
blake2sInit(nn, key) ==
    LET kk == Len(key)
    IN  [h |-> [blake2sIV EXCEPT ![1] = Xor32(@, <<257, kk * 256 + nn>>)],
         t0 |-> Zero32, t1 |-> Zero32,
         buf |-> IF kk > 0 THEN key \o ZeroBytes(64 - kk) ELSE ZeroBytes(64),
         bufLen |-> IF kk > 0 THEN 64 ELSE 0,
         nn |-> nn,
         calls |-> <<>>]

\* s.t0 += n; if s.t0 < n { s.t1++ }
blake2sCount(s, n) ==
    LET t0 == Add32(s.t0, U32(n))
    IN  [s EXCEPT !.t0 = t0,
                  !.t1 = IF Lt32(t0, U32(n)) THEN Add32(@, U32(1)) ELSE @]

\* copy(dst[at:], src)
copyAt(dst, at, src) ==
    [i \in 1..Len(dst) |->
        IF i > at /\ i <= at + Len(src) THEN src[i - at] ELSE dst[i]]

\* s.t0 += 64; blake2sCompress(&s.h, block, s.t0, s.t1, false)
blake2sBlock(s, block) ==
    CHOOSE r \in
        { [c EXCEPT !.h = blake2sCompress(c.h, block, c.t0, c.t1, FALSE),
                    !.calls = Append(@, [block |-> block, t0 |-> c.t0,
                                         t1 |-> c.t1, last |-> FALSE])] :
            c \in {blake2sCount(s, 64)} } : TRUE

\* for len(data) > 64 { ... } of update; the state and the data left
RECURSIVE blake2sBlocks(_, _)
blake2sBlocks(s, data) ==
    CHOOSE r \in
        { IF Len(d) > 64
          THEN CHOOSE q \in
                 { blake2sBlocks(s1, SubSeq(d, 65, Len(d))) :
                     s1 \in {blake2sBlock(s, SubSeq(d, 1, 64))} } : TRUE
          ELSE [s |-> s, data |-> d] :
            d \in {data} } : TRUE

\* Variant: a buffer that the data fills exactly is compressed at once.
blake2sUpdate_eager(s, data) ==
    CHOOSE r \in
        { IF Len(d) = 0 THEN s0
          ELSE IF Len(d) >= 64 - s0.bufLen
          THEN CHOOSE q \in
                 { [b.s EXCEPT !.buf = copyAt(@, 0, b.data),
                               !.bufLen = Len(b.data)] :
                     b \in { blake2sBlocks([s1 EXCEPT !.buf = full,
                                                      !.bufLen = 0],
                                           SubSeq(d, 64 - s0.bufLen + 1, Len(d))) :
                         s1 \in {blake2sBlock(s0, full)} } } : TRUE
          ELSE [s0 EXCEPT !.buf = copyAt(@, s0.bufLen, d),
                          !.bufLen = s0.bufLen + Len(d)] :
            s0 \in {s}, d \in {data},
            full \in {copyAt(s.buf, s.bufLen,
                             SubSeq(data, 1, Min2(Len(data), 64 - s.bufLen)))} }
        : TRUE

\* (s *blake2sState) update(data)
blake2sUpdate(s, data) ==
    CHOOSE r \in
        { IF Len(d) = 0 THEN s0
          ELSE IF Len(d) > 64 - s0.bufLen
          THEN CHOOSE q \in
                 { [b.s EXCEPT !.buf = copyAt(@, 0, b.data),
                               !.bufLen = Len(b.data)] :
                     b \in { blake2sBlocks([s1 EXCEPT !.buf = full,
                                                      !.bufLen = 0],
                                           SubSeq(d, 64 - s0.bufLen + 1, Len(d))) :
                         s1 \in {blake2sBlock(s0, full)} } } : TRUE
          ELSE [s0 EXCEPT !.buf = copyAt(@, s0.bufLen, d),
                          !.bufLen = s0.bufLen + Len(d)] :
            s0 \in {s}, d \in {data},
            full \in {copyAt(s.buf, s.bufLen,
                             SubSeq(data, 1, Min2(Len(data), 64 - s.bufLen)))} }
        : TRUE

\* the arguments of the blake2sCompress call of sum(): the buffer, zeroed
\* from bufLen on, and the counter after s.t0 += bufLen
blake2sLast(s) ==
    CHOOSE r \in
        { [block |-> [i \in 1..64 |-> IF i <= c.bufLen THEN c.buf[i] ELSE 0],
           t0 |-> c.t0, t1 |-> c.t1, last |-> TRUE] :
            c \in {blake2sCount(s, s.bufLen)} } : TRUE

\* (s *blake2sState) sum(): the 32 bytes of h after the last block
blake2sSum(s) ==
    CHOOSE r \in
        { [i \in 1..32 |-> LEBytes(h[((i - 1) \div 4) + 1])[((i - 1) % 4) + 1]] :
            h \in { blake2sCompress(s.h, l.block, l.t0, l.t1, l.last) :
                l \in {blake2sLast(s)} } } : TRUE

blake2s256(data) == blake2sSum(blake2sUpdate(blake2sInit(32, <<>>), data))

blake2s128MAC(key, data) ==
    SubSeq(blake2sSum(blake2sUpdate(blake2sInit(16, key), data)), 1, 16)

\* "mac1----"
mac1Label == <<109, 97, 99, 49, 45, 45, 45, 45>>

computeMAC1Key(serverPub) == blake2s256(mac1Label \o serverPub)

\* Variant: the MAC1 field is left as it is.
recomputeMAC1_keep(buf, mac1key) == buf

\* Variant: the MAC1 of an init is computed and written where a response
\* holds it.
recomputeMAC1_at60(buf, mac1key) ==
    CHOOSE r \in
        { copyAt(b, 60, blake2s128MAC(mac1key, SubSeq(b, 1, 60))) :
            b \in {buf} } : TRUE

\* recomputeMAC1: MAC1 at bytes [116:132] covers [0:116]
\* Variant: the MAC is computed over the packet up to the end of the MAC1
\* field.
recomputeMAC1_overlap(buf, mac1key) ==
    CHOOSE r \in
        { copyAt(b, 116, blake2s128MAC(mac1key, SubSeq(b, 1, 132))) :
            b \in {buf} } : TRUE

\* Variant: the MAC is computed over the WireGuard type field, as it was
\* before TransformOutbound rewrote it.
recomputeMAC1_origType(buf, mac1key) ==
    CHOOSE r \in
        { copyAt(b, 116, blake2s128MAC(mac1key,
                     LEBytes(U32(wgHandshakeInit)) \o SubSeq(b, 5, 116))) :
            b \in {buf} } : TRUE

recomputeMAC1(buf, mac1key) ==
    CHOOSE r \in
        { copyAt(b, 116, blake2s128MAC(mac1key, SubSeq(b, 1, 116))) :
            b \in {buf} } : TRUE

\* recomputeMAC1Response: MAC1 at bytes [60:76] covers [0:60]
recomputeMAC1Response(buf, mac1key) ==
    CHOOSE r \in
        { copyAt(b, 60, blake2s128MAC(mac1key, SubSeq(b, 1, 60))) :
            b \in {buf} } : TRUE

(***************************************************************************)
(* The transform engine (transform.go) on bytes.                           *)
(***************************************************************************)
MaxPickSpan == 3        \* ranges of at most this many values are enumerated

\* HRange.Contains
Contains_aboveMin(r, v) == Lt32(r.Min, v) /\ Le32(v, r.Max)

Contains(r, v) == Le32(r.Min, v) /\ Le32(v, r.Max)

\* rand.IntN(int(n)) for the uint32 n, on a build whose int has intBits bits:
\* the set of values it can return.  It panics, and the set is empty, when
\* int(n) <= 0.  Of a span above MaxPickSpan the two ends are kept.
IntN(n, intBits) ==
    IF n = Zero32 \/ (intBits = 32 /\ n[1] >= 32768) THEN {}
    ELSE IF n[1] = 0 /\ n[2] <= MaxPickSpan THEN {<<0, j>> : j \in 0..(n[2] - 1)}
    ELSE {Zero32, Sub32(n, U32(1))}

\* HRange.Pick: the values it can return; empty when it panics
Pick(r, intBits) ==
    IF r.Min = r.Max THEN {r.Min}
    ELSE {Add32(r.Min, d) :
            d \in IntN(Add32(Sub32(r.Max, r.Min), U32(1)), intBits)}

\* A Config as main.go builds it, before the derived fields are computed.
Config(Jc, S, H, ServerPub, ClientPub) ==
    [Jc |-> Jc, S1 |-> S[1], S2 |-> S[2], S3 |-> S[3], S4 |-> S[4],
     H1 |-> H[1], H2 |-> H[2], H3 |-> H[3], H4 |-> H[4],
     ServerPub |-> ServerPub, ClientPub |-> ClientPub,
     h4Fixed |-> Zero32, h4NoOp |-> FALSE, maxScan |-> 0,
     mac1keyServer |-> ZeroBytes(32), mac1keyClient |-> ZeroBytes(32)]

Max2(a, b) == IF a > b THEN a ELSE b

ComputeMAC1Keys(c) ==
    [c EXCEPT !.mac1keyServer = computeMAC1Key(c.ServerPub),
              !.mac1keyClient = computeMAC1Key(c.ClientPub)]

ComputeFastPath(c) ==
    [c EXCEPT !.h4Fixed = c.H4.Min,
              !.h4NoOp = (c.H4.Min = U32(wgTransportData)
                          /\ c.H4.Max = U32(wgTransportData) /\ c.S4 = 0),
              !.maxScan = Max2(Max2(c.S1, c.S2), Max2(c.S3, c.S4))]

\* out = make([]byte, S+n); randFill(out[:S]); copy(out[S:], buf[:n]),
\* pad being what randFill wrote; buf[:n] itself when S = 0
prepend_after(S, pad, buf, n) ==
    IF S > 0 THEN SubSeq(buf, 1, n) \o pad ELSE SubSeq(buf, 1, n)

prepend(S, pad, buf, n) ==
    IF S > 0 THEN pad \o SubSeq(buf, 1, n) ELSE SubSeq(buf, 1, n)

\* the type field of buf[:n], read only when n >= 4
msgTypeOf(buf, n) == IF n < 4 THEN Zero32 ELSE LEUint32(buf, 0)

\* the padding length of a kind
SOf(c, kind) ==
    CASE kind = wgHandshakeInit -> c.S1
      [] kind = wgHandshakeResponse -> c.S2
      [] kind = wgCookieReply -> c.S3
      [] kind = wgTransportData -> c.S4
      [] OTHER -> 0

\* the values of the type field TransformOutbound can draw for a kind; the
\* set is empty when Pick panics, and Pick is not called for a transport
\* packet of a collapsed H4 nor for a packet that passes through
PickOf(c, kind, intBits) ==
    CASE kind = wgHandshakeInit -> Pick(c.H1, intBits)
      [] kind = wgHandshakeResponse -> Pick(c.H2, intBits)
      [] kind = wgCookieReply -> Pick(c.H3, intBits)
      [] kind = wgTransportData ->
            IF c.h4NoOp \/ c.H4.Min = c.H4.Max THEN {c.h4Fixed}
            ELSE Pick(c.H4, intBits)
      [] OTHER -> {Zero32}

\* TransformOutbound(buf, n, cfg), h being the value Pick returned and pad
\* the bytes randFill wrote
TransformOutbound(buf, n, c, h, pad) ==
    LET kind == OutboundKind(msgTypeOf(buf, n), n)
    IN  CASE kind = wgHandshakeInit ->
               LET typed == LEPutUint32(SubSeq(buf, 1, n), 0, h)
                   maced == IF c.ServerPub # ZeroBytes(32)
                            THEN recomputeMAC1(typed, c.mac1keyServer)
                            ELSE typed
               IN  [out |-> prepend(c.S1, pad, maced, n), sendJunk |-> c.Jc > 0]
          [] kind = wgHandshakeResponse ->
               [out |-> prepend(c.S2, pad, LEPutUint32(SubSeq(buf, 1, n), 0, h), n),
                sendJunk |-> FALSE]
          [] kind = wgCookieReply ->
               [out |-> prepend(c.S3, pad, LEPutUint32(SubSeq(buf, 1, n), 0, h), n),
                sendJunk |-> FALSE]
          [] kind = wgTransportData ->
               IF c.h4NoOp THEN [out |-> SubSeq(buf, 1, n), sendJunk |-> FALSE]
               ELSE LET v == IF c.H4.Min = c.H4.Max THEN c.h4Fixed ELSE h
                    IN  [out |-> prepend(c.S4, pad,
                                         LEPutUint32(SubSeq(buf, 1, n), 0, v), n),
                         sendJunk |-> FALSE]
          [] OTHER -> [out |-> SubSeq(buf, 1, n), sendJunk |-> FALSE]

\* Variant: the rule of H1 is tried before the rule of H4.
inboundRule_h1First(c, h, rem) ==
    IF Contains(c.H1, h) /\ rem = WgHandshakeInitSize THEN wgHandshakeInit
    ELSE IF Contains(c.H4, h) /\ rem >= WgTransportMinSize THEN wgTransportData
    ELSE IF Contains(c.H2, h) /\ rem = WgHandshakeResponseSize
    THEN wgHandshakeResponse
    ELSE IF Contains(c.H3, h) /\ rem = WgCookieReplySize THEN wgCookieReply
    ELSE 0

\* the rule of the slow path that accepts the field h with rem bytes left,
\* in the order the loop body tries them; 0 when none does
inboundRule(c, h, rem) ==
    IF Contains(c.H4, h) /\ rem >= WgTransportMinSize THEN wgTransportData
    ELSE IF Contains(c.H1, h) /\ rem = WgHandshakeInitSize THEN wgHandshakeInit
    ELSE IF Contains(c.H2, h) /\ rem = WgHandshakeResponseSize
    THEN wgHandshakeResponse
    ELSE IF Contains(c.H3, h) /\ rem = WgCookieReplySize THEN wgCookieReply
    ELSE 0

\* the slow path of TransformInbound: the loop returns at the first offset,
\* in ascending order, at which a rule accepts
scanInbound(buf, n, c) ==
    CHOOSE r \in
        { IF hits = {} THEN [out |-> <<>>, valid |-> FALSE]
          ELSE CHOOSE q \in
                 { LET t == inboundRule(c, LEUint32(buf, off), n - off)
                       typed == SubSeq(LEPutUint32(buf, off, U32(t)), off + 1, n)
                   IN  [out |-> IF t = wgHandshakeResponse
                                   /\ c.ClientPub # ZeroBytes(32)
                                THEN recomputeMAC1Response(typed, c.mac1keyClient)
                                ELSE typed,
                        valid |-> TRUE] :
                     off \in {o \in hits : \A p \in hits : o <= p} } : TRUE :
            hits \in { {off \in 0..Min2(c.maxScan, n - 4) :
                          inboundRule(c, LEUint32(buf, off), n - off) # 0} } }
        : TRUE

\* TransformInbound(buf, n, cfg); out is empty where the code returns nil
TransformInbound(buf, n, c) ==
    IF n < 4 THEN [out |-> <<>>, valid |-> FALSE]
    ELSE IF Contains(c.H4, LEUint32(buf, 0)) /\ n >= WgTransportMinSize
    THEN [out |-> IF ~c.h4NoOp
                  THEN LEPutUint32(SubSeq(buf, 1, n), 0, U32(wgTransportData))
                  ELSE SubSeq(buf, 1, n),
          valid |-> TRUE]
    ELSE scanInbound(buf, n, c)

(***************************************************************************)
(* The transform engine as a state machine: a Config and a client packet   *)
(* are chosen, TransformOutbound rewrites the packet and TransformInbound  *)
(* is applied to what it returned.                                         *)
(***************************************************************************)
HRange(min, max) == [Min |-> min, Max |-> max]

Point(v) == HRange(v, v)

NoKey == ZeroBytes(32)
KeyA == [i \in 1..32 |-> i]
KeyB == [i \in 1..32 |-> 255 - i]

\* standard WireGuard values, nothing is rewritten
HStandard ==
    <<Point(U32(wgHandshakeInit)), Point(U32(wgHandshakeResponse)),
      Point(U32(wgCookieReply)), Point(U32(wgTransportData))>>

\* the v1 shape: one value per kind
HPoints ==
    <<Point(U32(1033089720)), Point(U32(1336452505)),
      Point(U32(1858775673)), Point(<<50000, 1234>>)>>

\* the v2 shape: disjoint ranges
HRanges ==
    <<HRange(U32(100), U32(102)), HRange(U32(200), U32(201)),
      Point(U32(300)), HRange(U32(400), U32(402))>>

\* H1 and H4 share the values 6 and 7
HOverlap ==
    <<HRange(U32(5), U32(7)), Point(U32(9)), Point(U32(10)),
      HRange(U32(6), U32(8))>>

\* H1 is the whole of uint32, H2 has more than 2^31 values
HWide ==
    <<HRange(Zero32, <<65535, 65535>>), HRange(<<4096, 0>>, <<40960, 0>>),
      Point(U32(wgCookieReply)), Point(U32(wgTransportData))>>

TransformConfigs ==
    { ComputeFastPath(ComputeMAC1Keys(c)) : c \in
        { Config(0, <<0, 0, 0, 0>>, HStandard, NoKey, NoKey),
          Config(4, <<46, 122, 0, 0>>, HPoints, NoKey, NoKey),
          Config(4, <<46, 122, 0, 0>>, HPoints, KeyA, KeyB),
          Config(0, <<0, 0, 0, 0>>, HStandard, KeyA, KeyB),
          Config(2, <<8, 16, 256, 4>>, HRanges, NoKey, NoKey),
          Config(0, <<0, 0, 0, 0>>, HOverlap, NoKey, NoKey),
          Config(1, <<0, 0, 0, 0>>, HWide, NoKey, NoKey) } }

\* H4 shares values with H1 (6, 7), H2 (9, 10) and H3 (10); 5, 11 and 12
\* are in one range only
HOverlapAll ==
    <<HRange(U32(5), U32(7)), HRange(U32(9), U32(11)),
      HRange(U32(10), U32(12)), HRange(U32(6), U32(10))>>

\* the Configs under which datagrams of the server are transformed
InboundConfigs ==
    TransformConfigs \cup
    { ComputeFastPath(ComputeMAC1Keys(
          Config(0, <<0, 4, 0, 8>>, HOverlapAll, NoKey, KeyB))) }

\* a packet of n bytes whose first bytes are t
Packet(t, n, fill) ==
    [i \in 1..n |-> IF i <= Len(t) THEN t[i]
                    ELSE IF fill = "index" THEN (i - 1) % 256 ELSE 255]

TransformInputs ==
    { Packet(LEBytes(U32(x[1])), x[2], fill) :
        x \in { <<wgHandshakeInit, WgHandshakeInitSize>>,
                <<wgHandshakeResponse, WgHandshakeResponseSize>>,
                <<wgCookieReply, WgCookieReplySize>>,
                <<wgTransportData, WgTransportMinSize>>,
                <<wgTransportData, WgHandshakeInitSize>> },
        fill \in {"index", "ff"} }
    \cup
    { Packet(LEBytes(U32(x[1])), x[2], "index") :
        x \in { <<wgHandshakeInit, WgHandshakeInitSize - 1>>,
                <<wgHandshakeInit, WgHandshakeInitSize + 1>>,
                <<wgHandshakeResponse, WgHandshakeInitSize>>,
                <<wgCookieReply, WgHandshakeResponseSize>>,
                <<wgTransportData, WgTransportMinSize - 1>>,
                <<5, WgCookieReplySize>>,
                <<0, WgHandshakeInitSize>> } }
    \cup
    { Packet(<<1, 0, 0>>, 3, "index"),
      Packet(<<1, 0, 0, 1>>, WgHandshakeInitSize, "index") }

\* Datagrams of the server under a Config: off bytes of padding, which may
\* hold a value of H4 or of H1 at offset 0, then a header of H_k and a body
\* that gives the packet the size of kind k, or one byte less; and
\* datagrams too short to hold a header or a transport packet.
ServerDatagrams(c) ==
    LET H == <<c.H1, c.H2, c.H3, c.H4>>
        S == <<c.S1, c.S2, c.S3, c.S4>>
        size == <<WgHandshakeInitSize, WgHandshakeResponseSize,
                  WgCookieReplySize, WgTransportMinSize>>
        pads(off) ==
            IF off < 4 THEN {[i \in 1..off |-> 171]}
            ELSE {[i \in 1..off |-> 171]} \cup
                 { copyAt([i \in 1..off |-> 171], 0, LEBytes(w)) :
                     w \in {c.H4.Min, c.H1.Min} }
    IN  { pad \o Packet(LEBytes(w), n, "index") :
            pad \in UNION { pads(off) :
                              off \in UNION { {0, S[k], c.maxScan, c.maxScan + 1} :
                                                k \in 1..4 } },
            w \in UNION { {H[k].Min, H[k].Max} : k \in 1..4 },
            n \in UNION { {size[k], size[k] - 1} : k \in 1..4 } }
        \cup
        { <<>>, Packet(LEBytes(c.H4.Min), 3, "index"),
          Packet(LEBytes(c.H4.Min), 4, "index") }

\* randFill(b) for len(b) = n: the contents it can leave in b.  Of the
\* 256^n contents the model keeps a constant one and those that hold one of
\* the given words at one of the given offsets.
randFill(n, words, at) ==
    LET plain == [i \in 1..n |-> 171]
    IN  IF n = 0 THEN {<<>>}
        ELSE {plain} \cup
             { copyAt(plain, q, LEBytes(w)) :
                 w \in words, q \in {a \in at : a >= 0 /\ a + 4 <= n} }

InitT ==
    /\ batch = FALSE
    /\ cfg = CHOOSE c \in ProxyConfigs : TRUE
    /\ scen = CHOOSE sc \in Scenarios : TRUE
    /\ NewProxy
    /\ tf \in { [pc |-> "in", cfg |-> c, intBits |-> b, buf |-> p,
                 out |-> <<>>, sendJunk |-> FALSE,
                 back |-> <<>>, valid |-> FALSE] :
                c \in TransformConfigs, b \in {32, 64}, p \in TransformInputs }
            \cup
            UNION { { [pc |-> "srv", cfg |-> c, intBits |-> 64, buf |-> p,
                       out |-> <<>>, sendJunk |-> FALSE,
                       back |-> <<>>, valid |-> FALSE] :
                        p \in ServerDatagrams(c) } : c \in InboundConfigs }

\* TransformOutbound returns
TransformOutbound_return ==
    /\ tf.pc = "in"
    /\ LET c == tf.cfg
           n == Len(tf.buf)
           kind == OutboundKind(msgTypeOf(tf.buf, n), n)
           S == IF kind = wgTransportData /\ c.h4NoOp THEN 0 ELSE SOf(c, kind)
       IN  \E h \in PickOf(c, kind, tf.intBits) :
           \E pad \in randFill(S, {c.H1.Min, c.H4.Min},
                               {0, S + n - WgHandshakeInitSize}) :
           \E r \in {TransformOutbound(tf.buf, n, c, h, pad)} :
               tf' = [tf EXCEPT !.pc = "out", !.out = r.out,
                                !.sendJunk = r.sendJunk]
    /\ UNCHANGED <<batch, cfg, scen, stop, shared, socks, run, sh, tc, c2s,
                   s2c, logs, env>>

\* Pick panics inside TransformOutbound
TransformOutbound_panic ==
    /\ tf.pc = "in"
    /\ LET n == Len(tf.buf)
       IN  PickOf(tf.cfg, OutboundKind(msgTypeOf(tf.buf, n), n), tf.intBits) = {}
    /\ tf' = [tf EXCEPT !.pc = "panic"]
    /\ UNCHANGED <<batch, cfg, scen, stop, shared, socks, run, sh, tc, c2s,
                   s2c, logs, env>>

\* TransformInbound is applied to what TransformOutbound returned
TransformInbound_return ==
    /\ tf.pc = "out"
    /\ \E r \in {TransformInbound(tf.out, Len(tf.out), tf.cfg)} :
           tf' = [tf EXCEPT !.pc = "back", !.back = r.out, !.valid = r.valid]
    /\ UNCHANGED <<batch, cfg, scen, stop, shared, socks, run, sh, tc, c2s,
                   s2c, logs, env>>

\* TransformInbound is applied to a datagram of the server
TransformInbound_datagram ==
    /\ tf.pc = "srv"
    /\ \E r \in {TransformInbound(tf.buf, Len(tf.buf), tf.cfg)} :
           tf' = [tf EXCEPT !.pc = "fwd", !.back = r.out, !.valid = r.valid]
    /\ UNCHANGED <<batch, cfg, scen, stop, shared, socks, run, sh, tc, c2s,
                   s2c, logs, env>>

NextT ==
    \/ TransformOutbound_return
    \/ TransformOutbound_panic
    \/ TransformInbound_return
    \/ TransformInbound_datagram

SpecT == InitT /\ [][NextT]_vars

(***************************************************************************)
(* Properties of the transform engine, on the packet as the client sent it *)
(* (tf.buf), what TransformOutbound returned (tf.out, tf.sendJunk) and     *)
(* what TransformInbound made of that (tf.back, tf.valid).                 *)
(***************************************************************************)
\* the kind of a well-formed WireGuard packet: type 1 of 148 bytes, type 2
\* of 92, type 3 of 64, type 4 of at least 32; 0 for every other packet
KindOf(p) ==
    IF Len(p) = 148 /\ SubSeq(p, 1, 4) = <<1, 0, 0, 0>> THEN 1
    ELSE IF Len(p) = 92 /\ SubSeq(p, 1, 4) = <<2, 0, 0, 0>> THEN 2
    ELSE IF Len(p) = 64 /\ SubSeq(p, 1, 4) = <<3, 0, 0, 0>> THEN 3
    ELSE IF Len(p) >= 32 /\ SubSeq(p, 1, 4) = <<4, 0, 0, 0>> THEN 4
    ELSE 0

\* S_k and H_k of a Config
PadOf(c, k) == <<c.S1, c.S2, c.S3, c.S4>>[k]

RangeOf(c, k) == <<c.H1, c.H2, c.H3, c.H4>>[k]

\* the little-endian 32-bit field of p at offset off, and its membership
FieldAt(p, off) ==
    <<p[off + 4] * 256 + p[off + 3], p[off + 2] * 256 + p[off + 1]>>

Within(r, w) == ~Lt32(w, r.Min) /\ ~Lt32(r.Max, w)

Returned == tf.pc \in {"out", "back"}

\* C8: TransformOutbound returns sendJunk = true exactly for an input of
\* type 1 and 148 bytes under a Config with Jc > 0, and false for every
\* other input.
C8_SendJunkIff ==
    Returned => (tf.sendJunk <=> (KindOf(tf.buf) = 1 /\ tf.cfg.Jc > 0))

C8_Witness ==
    /\ tf.pc = "out"
    /\ tf.sendJunk
    /\ KindOf(tf.buf) = 1
    /\ tf.cfg.Jc > 0

\* the bytes of the input after its type field appear in the output after
\* the field at offset S, but for the positions (of the input) in skip
BytesKept(in, out, S, skip) ==
    \A i \in 5..Len(in) : i \in skip \/ out[S + i] = in[i]

\* bytes [116..132) of an init, as positions of a sequence
InitMAC1 == 117..132

\* bytes [60..76) of a response
ResponseMAC1 == 61..76

\* the output has S_k + n bytes and its field at offset S_k is in H_k
OutboundShape(k) ==
    /\ Len(tf.out) = PadOf(tf.cfg, k) + Len(tf.buf)
    /\ Within(RangeOf(tf.cfg, k), FieldAt(tf.out, PadOf(tf.cfg, k)))

\* the packets C10 is about
C10_Case ==
    /\ Returned
    /\ KindOf(tf.buf) # 0
    /\ ~(KindOf(tf.buf) = 4 /\ tf.cfg.h4NoOp)

\* C10 as stated: a well-formed packet of kind k not on the h4NoOp path is
\* returned as S_k + n bytes with a field of H_k at offset S_k followed by
\* the input's bytes [4..n).
C10_AsStated ==
    C10_Case =>
        /\ OutboundShape(KindOf(tf.buf))
        /\ BytesKept(tf.buf, tf.out, PadOf(tf.cfg, KindOf(tf.buf)), {})

\* C10: a well-formed packet of kind k not on the h4NoOp path is returned
\* as S_k + n bytes with a field of H_k at offset S_k followed by the
\* input's bytes [4..n), except that bytes [116..132) of an init are its
\* MAC1 recomputed under the server's key when ServerPub is non-zero.
C10_OutboundShape ==
    C10_Case =>
        LET k == KindOf(tf.buf)
            S == PadOf(tf.cfg, k)
            keyed == k = 1 /\ tf.cfg.ServerPub # NoKey
        IN  /\ OutboundShape(k)
            /\ BytesKept(tf.buf, tf.out, S, IF keyed THEN InitMAC1 ELSE {})
            /\ keyed =>
                 SubSeq(tf.out, S + 117, S + 132)
                   = blake2s128MAC(tf.cfg.mac1keyServer,
                                   SubSeq(tf.out, S + 1, S + 116))

C10_Witness ==
    /\ tf.pc = "out"
    /\ KindOf(tf.buf) = 1
    /\ tf.cfg.ServerPub # NoKey
    /\ tf.cfg.S1 > 0
    /\ SubSeq(tf.out, tf.cfg.S1 + 117, tf.cfg.S1 + 132)
         # SubSeq(tf.buf, 117, 132)

\* a rule of TransformInbound accepts p at offset off
RuleAccepts(c, p, off) ==
    LET w == FieldAt(p, off)
        rem == Len(p) - off
    IN  \/ Within(c.H4, w) /\ rem >= 32
        \/ Within(c.H1, w) /\ rem = 148
        \/ Within(c.H2, w) /\ rem = 92
        \/ Within(c.H3, w) /\ rem = 64

\* no rule of TransformInbound accepts the output of TransformOutbound
\* before the rule of kind k at offset S_k
HeaderFirst(c, p, k) ==
    /\ \A off \in 0..(PadOf(c, k) - 1) : ~RuleAccepts(c, p, off)
    /\ k # 4 => ~Within(c.H4, FieldAt(p, PadOf(c, k)))

\* the round trip of a packet of kind k, but for the positions in skip
RoundTrip(k, skip) ==
    /\ tf.valid
    /\ Len(tf.back) = Len(tf.buf)
    /\ SubSeq(tf.back, 1, 4) = <<k, 0, 0, 0>>
    /\ BytesKept(tf.buf, tf.back, 0, skip)

C9_Case == tf.pc = "back" /\ KindOf(tf.buf) # 0

\* C9 as stated: for every Config and every well-formed packet of kind k,
\* TransformInbound of the output of TransformOutbound is valid, has the
\* original length, type k and the original bytes [4..n).
C9_AsStated == C9_Case => RoundTrip(KindOf(tf.buf), {})

\* C9: the same whenever no rule of TransformInbound accepts the output at
\* an offset below S_k and, for k in {1,2,3}, the value written at offset
\* S_k is not in H4; except bytes [116..132) of an init when ServerPub is
\* non-zero and bytes [60..76) of a response when ClientPub is non-zero,
\* which hold the recomputed MAC1.
C9_RoundTrip ==
    (C9_Case /\ HeaderFirst(tf.cfg, tf.out, KindOf(tf.buf))) =>
        LET k == KindOf(tf.buf)
            S == PadOf(tf.cfg, k)
            init == k = 1 /\ tf.cfg.ServerPub # NoKey
            resp == k = 2 /\ tf.cfg.ClientPub # NoKey
        IN  /\ RoundTrip(k, IF init THEN InitMAC1
                            ELSE IF resp THEN ResponseMAC1 ELSE {})
            /\ init => SubSeq(tf.back, 117, 132)
                         = SubSeq(tf.out, S + 117, S + 132)
            /\ resp => SubSeq(tf.back, 61, 76)
                         = blake2s128MAC(tf.cfg.mac1keyClient,
                                         SubSeq(tf.back, 1, 60))

C9_Witness ==
    /\ C9_Case
    /\ KindOf(tf.buf) = 2
    /\ tf.cfg.S2 > 0
    /\ tf.cfg.ClientPub # NoKey
    /\ HeaderFirst(tf.cfg, tf.out, 2)
    /\ tf.valid
    /\ SubSeq(tf.back, 61, 76) # SubSeq(tf.buf, 61, 76)

(***************************************************************************)
(* Properties of TransformInbound alone, on what it was given (the output  *)
(* of TransformOutbound, or a datagram of the server) and what it returned.*)
(***************************************************************************)
InboundDone == tf.pc \in {"back", "fwd"}

InboundArg == IF tf.pc = "back" THEN tf.out ELSE tf.buf

\* the offsets in [0, maxScan] with off + 4 <= n at which a rule passes
PassingOffsets(c, p) ==
    {off \in 0..c.maxScan : off + 4 <= Len(p) /\ RuleAccepts(c, p, off)}

MinOf(S) == CHOOSE x \in S : \A y \in S : x <= y

\* the first rule that passes at off, in the order H4, H1, H2, H3
FirstRule(c, p, off) ==
    LET w == FieldAt(p, off)
        rem == Len(p) - off
    IN  IF Within(c.H4, w) /\ rem >= 32 THEN 4
        ELSE IF Within(c.H1, w) /\ rem = 148 THEN 1
        ELSE IF Within(c.H2, w) /\ rem = 92 THEN 2
        ELSE 3

\* C11: TransformInbound returns a match exactly when a rule passes at some
\* offset off in [0, maxScan] with off + 4 <= n; the match is at the smallest
\* such offset and by the first rule that passes there in the order H4
\* (rem >= 32), H1 (rem = 148), H2 (rem = 92), H3 (rem = 64); the result has
\* the n - off bytes of buf[off..n) with the type field set to 4, 1, 2 or 3
\* (the MAC1 field of a response under a non-zero ClientPub is the subject
\* of C13), also when the H ranges overlap.
C11_SmallestOffsetFirstRule ==
    InboundDone =>
        LET p == InboundArg
            c == tf.cfg
            offs == PassingOffsets(c, p)
        IN  /\ tf.valid <=> (offs # {})
            /\ offs # {} =>
                 LET off == MinOf(offs)
                     k == FirstRule(c, p, off)
                     rem == Len(p) - off
                 IN  /\ Len(tf.back) = rem
                     /\ SubSeq(tf.back, 1, 4) = <<k, 0, 0, 0>>
                     /\ \A i \in 5..rem :
                          \/ k = 2 /\ c.ClientPub # NoKey /\ i \in ResponseMAC1
                          \/ tf.back[i] = p[off + i]

\* a datagram whose first match is behind padding, where the rule of H4 and
\* the rule of H1 both pass, is returned as a transport packet
C11_Witness ==
    /\ tf.pc = "fwd"
    /\ tf.valid
    /\ LET offs == PassingOffsets(tf.cfg, tf.buf)
       IN  /\ offs # {}
           /\ MinOf(offs) > 0
           /\ Within(tf.cfg.H4, FieldAt(tf.buf, MinOf(offs)))
           /\ Within(tf.cfg.H1, FieldAt(tf.buf, MinOf(offs)))
           /\ Len(tf.buf) - MinOf(offs) = 148
    /\ SubSeq(tf.back, 1, 4) = <<4, 0, 0, 0>>

(***************************************************************************)
(* The MAC1 field and the bytes the transforms leave alone.                *)
(***************************************************************************)
\* C13: the MAC1 field of an init rewritten by TransformOutbound is
\* recomputed (it is the keyed BLAKE2s-128 of the bytes before it, under the
\* key derived from ServerPub) when ServerPub is non-zero and left as it
\* entered when ServerPub is zero; the same for a response rewritten by
\* TransformInbound and ClientPub; every other rewritten packet keeps all
\* its bytes but the type field.
C13_MAC1IffKey ==
    /\ (Returned /\ KindOf(tf.buf) # 0) =>
          LET k == KindOf(tf.buf)
              S == PadOf(tf.cfg, k)
              keyed == k = 1 /\ tf.cfg.ServerPub # NoKey
          IN  /\ Len(tf.out) = S + Len(tf.buf)
              /\ BytesKept(tf.buf, tf.out, S, IF keyed THEN InitMAC1 ELSE {})
              /\ keyed =>
                   SubSeq(tf.out, S + 117, S + 132)
                     = blake2s128MAC(computeMAC1Key(tf.cfg.ServerPub),
                                     SubSeq(tf.out, S + 1, S + 116))
    /\ (InboundDone /\ tf.valid) =>
          LET p == InboundArg
              off == Len(p) - Len(tf.back)
              keyed == SubSeq(tf.back, 1, 4) = <<2, 0, 0, 0>>
                       /\ tf.cfg.ClientPub # NoKey
          IN  /\ \A i \in 5..Len(tf.back) :
                   \/ keyed /\ i \in ResponseMAC1
                   \/ tf.back[i] = p[off + i]
              /\ keyed =>
                   SubSeq(tf.back, 61, 76)
                     = blake2s128MAC(computeMAC1Key(tf.cfg.ClientPub),
                                     SubSeq(tf.back, 1, 60))

\* a response of the server behind padding leaves TransformInbound with a
\* new MAC1 under a non-zero ClientPub
C13_Witness ==
    /\ tf.pc = "fwd"
    /\ tf.valid
    /\ tf.cfg.ClientPub # NoKey
    /\ SubSeq(tf.back, 1, 4) = <<2, 0, 0, 0>>
    /\ Len(tf.buf) > Len(tf.back)
    /\ SubSeq(tf.back, 61, 76)
         # SubSeq(tf.buf, Len(tf.buf) - 31, Len(tf.buf) - 16)

\* the packets C14 is about
C14_Case ==
    /\ Returned
    /\ KindOf(tf.buf) \in {1, 2, 3}
    /\ PadOf(tf.cfg, KindOf(tf.buf)) = 0

\* C14 as stated: for a well-formed packet of type k in {1,2,3} with
\* S_k = 0, bytes [4..n) of the packet TransformOutbound returns are those
\* of the input, for every Config.
C14_AsStated ==
    C14_Case =>
        /\ Len(tf.out) = Len(tf.buf)
        /\ BytesKept(tf.buf, tf.out, 0, {})

\* C14: the same, except that for k = 1 under a non-zero ServerPub bytes
\* [116..132) hold the MAC1 recomputed over bytes [0..116) of the returned
\* packet.
C14_OnlyTypeField ==
    C14_Case =>
        LET keyed == KindOf(tf.buf) = 1 /\ tf.cfg.ServerPub # NoKey
        IN  /\ Len(tf.out) = Len(tf.buf)
            /\ BytesKept(tf.buf, tf.out, 0, IF keyed THEN InitMAC1 ELSE {})
            /\ keyed =>
                 SubSeq(tf.out, 117, 132)
                   = blake2s128MAC(tf.cfg.mac1keyServer, SubSeq(tf.out, 1, 116))

C14_Witness ==
    /\ tf.pc = "out"
    /\ KindOf(tf.buf) = 1
    /\ tf.cfg.S1 = 0
    /\ tf.cfg.ServerPub # NoKey
    /\ Len(tf.out) = 148
    /\ SubSeq(tf.out, 5, 116) = SubSeq(tf.buf, 5, 116)
    /\ SubSeq(tf.out, 117, 132) # SubSeq(tf.buf, 117, 132)

\* C15: TransformOutbound returns an input that is not a well-formed
\* WireGuard packet (fewer than 4 bytes, an unknown type, type 1/2/3 with a
\* length other than 148/92/64, type 4 with fewer than 32 bytes) as it is,
\* with sendJunk = false.
C15_Passthrough ==
    (Returned /\ KindOf(tf.buf) = 0) => (tf.out = tf.buf /\ ~tf.sendJunk)

\* a transport packet of 31 bytes under a Config that pads and rewrites
\* transport packets
C15_Witness ==
    /\ tf.pc = "out"
    /\ Len(tf.buf) = 31
    /\ SubSeq(tf.buf, 1, 4) = <<4, 0, 0, 0>>
    /\ tf.cfg.S4 > 0
    /\ tf.cfg.H4.Min # U32(4)
    /\ tf.out = tf.buf
    /\ ~tf.sendJunk

\* C18: HRange.Pick returns a value of [Min, Max] for every range with
\* Min <= Max, on builds with a 64-bit and with a 32-bit int: no call of
\* Pick panics, and every type field TransformOutbound writes is in the
\* range of its kind.
C18_PickInRange ==
    /\ tf.pc # "panic"
    /\ C10_Case =>
         Within(RangeOf(tf.cfg, KindOf(tf.buf)),
                FieldAt(tf.out, PadOf(tf.cfg, KindOf(tf.buf))))

(***************************************************************************)
(* CPS templates (cps.go).  A string is the sequence of its characters.    *)
(***************************************************************************)
Digits ==
    "0" :> 0 @@ "1" :> 1 @@ "2" :> 2 @@ "3" :> 3 @@ "4" :> 4 @@
    "5" :> 5 @@ "6" :> 6 @@ "7" :> 7 @@ "8" :> 8 @@ "9" :> 9

\* hexVal: the value of a hex character, or -1
hexVal(c) ==
    IF c \in DOMAIN Digits THEN Digits[c]
    ELSE IF c \in {"a", "b", "c", "d", "e", "f"}
    THEN ("a" :> 10 @@ "b" :> 11 @@ "c" :> 12 @@ "d" :> 13 @@ "e" :> 14
          @@ "f" :> 15)[c]
    ELSE IF c \in {"A", "B", "C", "D", "E", "F"}
    THEN ("A" :> 10 @@ "B" :> 11 @@ "C" :> 12 @@ "D" :> 13 @@ "E" :> 14
          @@ "F" :> 15)[c]
    ELSE -1

\* decodeHex: the bytes, or an error for an odd length or a bad character
decodeHex(s) ==
    IF Len(s) % 2 # 0 THEN [ok |-> FALSE, data |-> <<>>]
    ELSE IF \E i \in 1..Len(s) : hexVal(s[i]) < 0
    THEN [ok |-> FALSE, data |-> <<>>]
    ELSE [ok |-> TRUE,
          data |-> [i \in 1..(Len(s) \div 2) |->
                      hexVal(s[2 * i - 1]) * 16 + hexVal(s[2 * i])]]

\* trimLeft: leading spaces and tabs removed
RECURSIVE trimLeft(_)
trimLeft(s) ==
    IF s # <<>> /\ s[1] \in {" ", "\t"} THEN trimLeft(Tail(s)) ELSE s

RECURSIVE decimal(_)
decimal(ds) ==
    IF ds = <<>> THEN 0
    ELSE decimal(SubSeq(ds, 1, Len(ds) - 1)) * 10 + Digits[ds[Len(ds)]]

\* strconv.Atoi: an optional sign and then one or more decimal digits.  The
\* value is computed for up to 9 digits; Atoi reports a range error beyond
\* the width of int.
Atoi(s) ==
    LET signed == s # <<>> /\ s[1] \in {"+", "-"}
        ds == IF signed THEN Tail(s) ELSE s
    IN  IF ds = <<>> \/ Len(ds) > 9 \/ \E i \in 1..Len(ds) : ds[i] \notin DOMAIN Digits
        THEN [ok |-> FALSE, n |-> 0]
        ELSE [ok |-> TRUE,
              n |-> IF signed /\ s[1] = "-" THEN 0 - decimal(ds) ELSE decimal(ds)]

NoSeg == [kind |-> "", data |-> <<>>, size |-> 0]

\* a tag with a size: <r SIZE>, <rc SIZE>, <rd SIZE>
sizeTag(kind, rest) ==
    LET size == Atoi(trimLeft(rest))
    IN  IF ~size.ok \/ size.n <= 0 THEN [ok |-> FALSE, seg |-> NoSeg]
        ELSE [ok |-> TRUE, seg |-> [kind |-> kind, data |-> <<>>, size |-> size.n]]

\* parseCPSTag: the segment of the text between '<' and '>', or an error.
\* The kinds are those of the segment constants: b, r, t, c, C (rc), D (rd).
parseCPSTag(tag) ==
    IF Len(tag) = 0 THEN [ok |-> FALSE, seg |-> NoSeg]
    ELSE CASE tag[1] = "b" ->
                LET rest == trimLeft(Tail(tag))
                    data == decodeHex(SubSeq(rest, 3, Len(rest)))
                IN  IF Len(rest) < 3 \/ rest[1] # "0" \/ rest[2] \notin {"x", "X"}
                    THEN [ok |-> FALSE, seg |-> NoSeg]
                    ELSE IF ~data.ok THEN [ok |-> FALSE, seg |-> NoSeg]
                    ELSE [ok |-> TRUE,
                          seg |-> [kind |-> "b", data |-> data.data, size |-> 0]]
           [] tag[1] = "r" ->
                IF Len(tag) > 1 /\ tag[2] = "c"
                THEN sizeTag("C", SubSeq(tag, 3, Len(tag)))
                ELSE IF Len(tag) > 1 /\ tag[2] = "d"
                THEN sizeTag("D", SubSeq(tag, 3, Len(tag)))
                ELSE sizeTag("r", Tail(tag))
           [] tag[1] = "t" ->
                [ok |-> TRUE, seg |-> [kind |-> "t", data |-> <<>>, size |-> 0]]
           [] tag[1] = "c" ->
                [ok |-> TRUE, seg |-> [kind |-> "c", data |-> <<>>, size |-> 0]]
           [] OTHER -> [ok |-> FALSE, seg |-> NoSeg]

\* the loop of ParseCPSTemplate from position i (1-based) with the segments
\* parsed so far; segments is empty where the code returns nil
RECURSIVE parseFrom(_, _, _)
parseFrom(s, i, segs) ==
    IF i > Len(s)
    THEN IF segs = <<>> THEN [ok |-> FALSE, segments |-> <<>>]
         ELSE [ok |-> TRUE, segments |-> segs]
    ELSE IF s[i] \in {" ", "\t", "\n", "\r"} THEN parseFrom(s, i + 1, segs)
    ELSE IF s[i] # "<" THEN [ok |-> FALSE, segments |-> <<>>]
    ELSE LET ends == {j \in (i + 1)..Len(s) : s[j] = ">"}
         IN  IF ends = {} THEN [ok |-> FALSE, segments |-> <<>>]
             ELSE LET end == CHOOSE j \in ends : \A k \in ends : j <= k
                      r == parseCPSTag(SubSeq(s, i + 1, end - 1))
                  IN  IF ~r.ok THEN [ok |-> FALSE, segments |-> <<>>]
                      ELSE parseFrom(s, end + 1, Append(segs, r.seg))

ParseCPSTemplate(s) == parseFrom(s, 1, <<>>)

\* the segment of a template written into a packet: static bytes, random
\* bytes, characters or digits (one of the values the generator can draw,
\* given by fill), the timestamp and the counter, little-endian
genSeg(seg, counter, now, fill) ==
    CASE seg.kind = "b" -> seg.data
      [] seg.kind = "r" -> [i \in 1..seg.size |-> fill.r]
      [] seg.kind = "C" -> [i \in 1..seg.size |-> fill.C]
      [] seg.kind = "D" -> [i \in 1..seg.size |-> fill.D]
      [] seg.kind = "t" -> LEBytes(now)
      [] seg.kind = "c" -> LEBytes(counter)

RECURSIVE genFrom(_, _, _, _)
genFrom(segs, counter, now, fill) ==
    IF segs = <<>> THEN <<>>
    ELSE genSeg(Head(segs), counter, now, fill)
         \o genFrom(Tail(segs), counter, now, fill)

\* CPSTemplate.Generate
Generate(t, counter, now, fill) == genFrom(t.segments, counter, now, fill)

\* Variant: the counter is incremented before the packet is generated.
cpsStep_preIncrement(t, k, counter, now, fill) ==
    [pkt |-> [tmpl |-> k, counter |-> Add32(counter, U32(1)),
              bytes |-> Generate(t, Add32(counter, U32(1)), now, fill)],
     counter |-> Add32(counter, U32(1))]

\* the body of the loop of GenerateCPSPackets for the non-nil template t at
\* index k: pkt := tmpl.Generate(*counter); *counter++
cpsStep(t, k, counter, now, fill) ==
    [pkt |-> [tmpl |-> k, counter |-> counter,
              bytes |-> Generate(t, counter, now, fill)],
     counter |-> Add32(counter, U32(1))]

\* Variant: one size more than the range holds.
junkSizes_open(jmin, jmax) ==
    IF jmax > jmin THEN {jmin + d : d \in 0..(jmax - jmin + 1)} ELSE {jmin}

\* the sizes GenerateJunkPackets can draw:
\* size := jmin; if jmax > jmin { size = jmin + rand.IntN(jmax-jmin+1) }
junkSizes(jmin, jmax) ==
    IF jmax > jmin THEN {jmin + d : d \in 0..(jmax - jmin)} ELSE {jmin}

(***************************************************************************)
(* The parser and the generators of decoy packets as a state machine: a    *)
(* string is parsed; the templates of a Config are generated, handshake    *)
(* after handshake; junk packets are generated.                            *)
(***************************************************************************)
MaxHandshakes == 2      \* calls of GenerateCPSPackets on one counter
MaxJunkCount == 2       \* largest Jc
MaxJunkSize == 3        \* largest Jmin and Jmax

\* strings made of the six tags of the template language
WellFormedStrings ==
    { <<"<", "b", " ", "0", "x", "0", "8", "4", "4", ">">>,
      <<"<", "r", " ", "1", "6", ">">>,
      <<"<", "t", ">">>,
      <<"<", "c", ">">>,
      <<"<", "r", "c", " ", "1", "2", ">">>,
      <<"<", "r", "d", " ", "8", ">">>,
      <<"<", "b", " ", "0", "x", "D", "E", "A", "D", ">", " ", "<", "r", "c", " ", "8", ">", " ", "<", "t", ">", " ", "<", "r", "d", " ", "4", ">">>,
      <<"<", "b", " ", "0", "x", "A", "A", "B", "B", ">", " ", "<", "r", " ", "8", ">", " ", "<", "t", ">", " ", "<", "c", ">">>,
      <<" ", "<", "t", ">", "\t", "<", "c", ">", "\n">>,
      <<"<", "t", ">", "<", "c", ">">>,
      <<"<", "b", " ", "0", "x", "a", "b", ">">>,
      <<"<", "r", " ", "1", ">">>,
      <<"\r", "\n", "<", "c", ">">>,
      <<"<", "b", " ", "0", "x", "D", "E", "A", "D", ">", " ", "<", "r", " ", "4", ">", " ", "<", "c", ">">> }

\* strings with an error
MalformedStrings ==
    { <<>>,
      <<" ", "\t">>,
      <<"<", "b", ">">>,
      <<"<", "b", " ", "0", "x", ">">>,
      <<"<", "b", " ", "0", "x", "G", "G", ">">>,
      <<"<", "b", " ", "0", "x", "1", ">">>,
      <<"<", "r", ">">>,
      <<"<", "r", " ", "a", "b", "c", ">">>,
      <<"<", "r", " ", "-", "5", ">">>,
      <<"<", "r", " ", "0", ">">>,
      <<"<", "x", ">">>,
      <<"<", "b", " ", "0", "x", "F", "F">>,
      <<"<", "r", "c", ">">>,
      <<"<", "r", "c", " ", "a", "b", "c", ">">>,
      <<"<", "r", "c", " ", "0", ">">>,
      <<"<", "r", "c", " ", "-", "1", ">">>,
      <<"<", "r", "d", ">">>,
      <<"<", "r", "d", " ", "a", "b", "c", ">">>,
      <<"<", "r", "d", " ", "0", ">">>,
      <<"<", "r", "d", " ", "-", "1", ">">>,
      <<"<", ">">>,
      <<"t">>,
      <<"<", "t", ">", " ", "x", " ", "<", "c", ">">>,
      <<"<", "t", ">", ">">>,
      <<"<">>,
      <<"<", "r", " ", "5", " ", ">">>,
      <<"<", "r", "x", " ", "5", ">">>,
      <<"<", "R", " ", "5", ">">>,
      <<"<", "b", " ", "0", "x", "F", "F", " ", "0", "x", "E", "E", ">">>,
      <<"<", "b", " ", "F", "F", ">">>,
      <<"<", "r", " ", "1", ".", "5", ">">>,
      <<"<", "t">>,
      <<"<", "r", " ", "5", ">", "<">>,
      <<"<", "b", " ", "0", "x", "1", "2", " ", ">">>,
      <<"<", "T", ">">>,
      <<"<", "r", " ", "5", ">", "c">> }

\* strings that stray from the six tags in one detail
LooseStrings ==
    { <<"<", "t", "x", ">">>,
      <<"<", "c", " ", "5", ">">>,
      <<"<", "c", "o", "u", "n", "t", "e", "r", ">">>,
      <<"<", "t", "i", "m", "e", ">">>,
      <<"<", "r", " ", "+", "5", ">">>,
      <<"<", "r", "5", ">">>,
      <<"<", "r", "c", "5", ">">>,
      <<"<", "b", "0", "x", "F", "F", ">">>,
      <<"<", "b", " ", "0", "X", "F", "F", ">">>,
      <<"<", "b", "\t", "0", "x", "F", "F", ">">>,
      <<"<", "t", " ", ">">>,
      <<"<", "c", "<", ">">>,
      <<"<", "t", ">", "\f", "<", "c", ">">> }

\* the nil template; a parsed template has at least one segment
Nil == [segments |-> <<>>]

TemplateOf(s) == [segments |-> ParseCPSTemplate(s).segments]

\* Config.CPS: I1..I5, Nil where none is configured
TemplateArrays ==
    LET c == TemplateOf(<<"<", "c", ">">>)
        m == TemplateOf(<<"<", "b", " ", "0", "x", "D", "E", "A", "D", ">", " ",
                          "<", "r", " ", "4", ">", " ", "<", "c", ">">>)
        x == TemplateOf(<<"<", "b", " ", "0", "x", "0", "8", "4", "4", ">">>)
        t == TemplateOf(<<"<", "t", ">", "<", "r", "c", " ", "2", ">",
                          "<", "r", "d", " ", "2", ">">>)
    IN  { <<Nil, Nil, Nil, Nil, Nil>>,
          <<c, Nil, Nil, Nil, Nil>>,
          <<Nil, Nil, c, Nil, Nil>>,
          <<x, Nil, m, Nil, Nil>>,
          <<Nil, m, Nil, Nil, c>>,
          <<c, m, x, t, c>>,
          <<t, Nil, Nil, c, Nil>> }

\* values of the counter on entry: 0 as NewProxy leaves it, and values next
\* to a carry and to the wrap of uint32
CounterValues == {Zero32, <<0, 65535>>, <<65535, 65534>>}

Fills == { [r |-> 0, C |-> 48, D |-> 48], [r |-> 255, C |-> 122, D |-> 57] }

InitD ==
    /\ batch = FALSE
    /\ cfg = CHOOSE c \in ProxyConfigs : TRUE
    /\ scen = CHOOSE sc \in Scenarios : TRUE
    /\ NewProxy
    /\ tf \in { [pc |-> "parse", s |-> s, ok |-> FALSE, segments |-> <<>>] :
                 s \in WellFormedStrings \cup MalformedStrings \cup LooseStrings }
            \cup
            { [pc |-> "cps", templates |-> ts, start |-> c0, c0 |-> c0,
               counter |-> c0, k |-> 1, packets |-> <<>>, all |-> <<>>,
               calls |-> 0, now |-> U32(1700000000)] :
                 ts \in TemplateArrays, c0 \in CounterValues }
            \cup
            { [pc |-> "junk", Jc |-> jc, Jmin |-> lo, Jmax |-> hi,
               jmin |-> 0, jmax |-> 0, packets |-> <<>>] :
                 jc \in (-1)..MaxJunkCount, lo \in (-1)..MaxJunkSize,
                 hi \in (-1)..MaxJunkSize }

\* ParseCPSTemplate returns
ParseCPSTemplate_return ==
    /\ tf.pc = "parse"
    /\ \E r \in {ParseCPSTemplate(tf.s)} :
           tf' = [tf EXCEPT !.pc = "parsed", !.ok = r.ok, !.segments = r.segments]
    /\ UNCHANGED <<batch, cfg, scen, stop, shared, socks, run, sh, tc, c2s,
                   s2c, logs, env>>

\* one iteration of the loop of GenerateCPSPackets
GenerateCPSPackets_template ==
    /\ tf.pc = "cps"
    /\ tf.k <= 5
    /\ IF tf.templates[tf.k] = Nil
       THEN tf' = [tf EXCEPT !.k = @ + 1]
       ELSE \E fill \in Fills :
            \E r \in {cpsStep(tf.templates[tf.k], tf.k, tf.counter, tf.now, fill)} :
                tf' = [tf EXCEPT !.k = @ + 1, !.counter = r.counter,
                                 !.packets = Append(@, r.pkt)]
    /\ UNCHANGED <<batch, cfg, scen, stop, shared, socks, run, sh, tc, c2s,
                   s2c, logs, env>>

\* GenerateCPSPackets returns
GenerateCPSPackets_return ==
    /\ tf.pc = "cps"
    /\ tf.k = 6
    /\ tf' = [tf EXCEPT !.pc = "cpsDone", !.all = @ \o tf.packets,
                        !.calls = @ + 1]
    /\ UNCHANGED <<batch, cfg, scen, stop, shared, socks, run, sh, tc, c2s,
                   s2c, logs, env>>

\* the next handshake-init calls GenerateCPSPackets on the same counter
GenerateCPSPackets_call ==
    /\ tf.pc = "cpsDone"
    /\ tf.calls < MaxHandshakes
    /\ tf' = [tf EXCEPT !.pc = "cps", !.k = 1, !.packets = <<>>,
                        !.c0 = tf.counter]
    /\ UNCHANGED <<batch, cfg, scen, stop, shared, socks, run, sh, tc, c2s,
                   s2c, logs, env>>

\* GenerateJunkPackets up to its loop
GenerateJunkPackets_enter ==
    /\ tf.pc = "junk"
    /\ tf' = IF tf.Jc <= 0 \/ tf.Jmax <= 0
             THEN [tf EXCEPT !.pc = "junkDone"]
             ELSE LET jmin == IF tf.Jmin <= 0 THEN 1 ELSE tf.Jmin
                      jmax == IF tf.Jmax < jmin THEN jmin ELSE tf.Jmax
                  IN  [tf EXCEPT !.pc = "junkLoop", !.jmin = jmin, !.jmax = jmax]
    /\ UNCHANGED <<batch, cfg, scen, stop, shared, socks, run, sh, tc, c2s,
                   s2c, logs, env>>

\* one iteration of the loop of GenerateJunkPackets
GenerateJunkPackets_packet ==
    /\ tf.pc = "junkLoop"
    /\ Len(tf.packets) < tf.Jc
    /\ \E size \in junkSizes(tf.jmin, tf.jmax) :
       \E pkt \in randFill(size, {}, {}) :
           tf' = [tf EXCEPT !.packets = Append(@, pkt)]
    /\ UNCHANGED <<batch, cfg, scen, stop, shared, socks, run, sh, tc, c2s,
                   s2c, logs, env>>

\* GenerateJunkPackets returns
GenerateJunkPackets_return ==
    /\ tf.pc = "junkLoop"
    /\ Len(tf.packets) = tf.Jc
    /\ tf' = [tf EXCEPT !.pc = "junkDone"]
    /\ UNCHANGED <<batch, cfg, scen, stop, shared, socks, run, sh, tc, c2s,
                   s2c, logs, env>>

NextD ==
    \/ ParseCPSTemplate_return
    \/ GenerateCPSPackets_template
    \/ GenerateCPSPackets_return
    \/ GenerateCPSPackets_call
    \/ GenerateJunkPackets_enter
    \/ GenerateJunkPackets_packet
    \/ GenerateJunkPackets_return

SpecD == InitD /\ [][NextD]_vars

(***************************************************************************)
(* Properties of the generators and of the parser.                         *)
(***************************************************************************)
\* v + d on 32 bits, for a small d
Plus(v, d) ==
    LET lo == v[2] + d
    IN  <<(v[1] + (lo \div 65536)) % 65536, lo % 65536>>

\* the four bytes of v, lowest first
LE4(v) == <<v[2] % 256, v[2] \div 256, v[1] % 256, v[1] \div 256>>

SegLen(seg) ==
    IF seg.kind = "b" THEN Len(seg.data)
    ELSE IF seg.kind \in {"t", "c"} THEN 4
    ELSE seg.size

RECURSIVE SegOffset(_, _)
SegOffset(segs, j) ==
    IF j = 1 THEN 0 ELSE SegOffset(segs, j - 1) + SegLen(segs[j - 1])

\* every counter segment of the packet holds v
CounterShown(t, bytes, v) ==
    \A j \in 1..Len(t.segments) :
        t.segments[j].kind = "c" =>
            SubSeq(bytes, SegOffset(t.segments, j) + 1,
                   SegOffset(t.segments, j) + 4) = LE4(v)

\* C16: GenerateCPSPackets returns one packet per non-nil template in index
\* order; the i-th (from 0) is generated with the counter at c0 + i, c0 being
\* the counter on entry, and on return the counter is c0 plus the number of
\* non-nil templates (in uint32); over successive handshakes from a counter
\* of 0 the first packet ever generated sees 0 and the second sees 1.
C16_CounterPerPacket ==
    tf.pc = "cpsDone" =>
        LET idx == SelectSeq(<<1, 2, 3, 4, 5>>, LAMBDA k : tf.templates[k] # Nil)
            m == Len(idx)
        IN  /\ Len(tf.packets) = m
            /\ \A i \in 1..m :
                 /\ tf.packets[i].tmpl = idx[i]
                 /\ tf.packets[i].counter = Plus(tf.c0, i - 1)
                 /\ CounterShown(tf.templates[idx[i]], tf.packets[i].bytes,
                                 Plus(tf.c0, i - 1))
            /\ tf.counter = Plus(tf.c0, m)
            /\ (tf.start = Zero32 /\ Len(tf.all) >= 1) =>
                 tf.all[1].counter = <<0, 0>>
            /\ (tf.start = Zero32 /\ Len(tf.all) >= 2) =>
                 tf.all[2].counter = <<0, 1>>

\* two handshakes with the template <c> as I3 only: the packets hold 0 and 1
C16_Witness ==
    /\ tf.pc = "cpsDone"
    /\ tf.calls = 2
    /\ tf.start = Zero32
    /\ Len(tf.all) = 2
    /\ tf.all[1].tmpl = 3
    /\ tf.all[1].bytes = <<0, 0, 0, 0>>
    /\ tf.all[2].bytes = <<1, 0, 0, 0>>

\* C17: GenerateJunkPackets returns exactly Jc packets, each of a length in
\* [Jmin, Jmax], when Jc > 0 and 1 <= Jmin <= Jmax, and no packet when
\* Jc = 0.
C17_JunkCountAndSizes ==
    tf.pc = "junkDone" =>
        /\ (tf.Jc > 0 /\ 1 <= tf.Jmin /\ tf.Jmin <= tf.Jmax) =>
             /\ Len(tf.packets) = tf.Jc
             /\ \A i \in 1..Len(tf.packets) :
                  tf.Jmin <= Len(tf.packets[i]) /\ Len(tf.packets[i]) <= tf.Jmax
        /\ tf.Jc = 0 => tf.packets = <<>>

\* two packets, one of the smallest and one of the largest size
C17_Witness ==
    /\ tf.pc = "junkDone"
    /\ tf.Jc = 2
    /\ tf.Jmin = 1
    /\ tf.Jmax = 3
    /\ Len(tf.packets) = 2
    /\ Len(tf.packets[1]) = 1
    /\ Len(tf.packets[2]) = 3

\* a tag as C19 lists them: <b 0xHEX> with HEX non-empty, of even length and
\* of hex digits only; <r N>, <rc N>, <rd N> with N a positive decimal
\* integer; <t>; <c>
ListedTag(inner) ==
    LET hexChars == {"0", "1", "2", "3", "4", "5", "6", "7", "8", "9",
                     "a", "b", "c", "d", "e", "f", "A", "B", "C", "D", "E", "F"}
        decChars == {"0", "1", "2", "3", "4", "5", "6", "7", "8", "9"}
        after(p) == SubSeq(inner, Len(p) + 1, Len(inner))
        starts(p) == Len(inner) > Len(p) /\ SubSeq(inner, 1, Len(p)) = p
    IN  \/ inner \in {<<"t">>, <<"c">>}
        \/ /\ starts(<<"b", " ", "0", "x">>)
           /\ Len(after(<<"b", " ", "0", "x">>)) % 2 = 0
           /\ \A i \in 5..Len(inner) : inner[i] \in hexChars
        \/ \E p \in {<<"r", " ">>, <<"r", "c", " ">>, <<"r", "d", " ">>} :
              /\ starts(p)
              /\ \A i \in (Len(p) + 1)..Len(inner) : inner[i] \in decChars
              /\ \E i \in (Len(p) + 1)..Len(inner) : inner[i] # "0"

\* the string from position i on is closed listed tags separated only by
\* ASCII whitespace, count tags having been read before it
RECURSIVE ListedFrom(_, _, _)
ListedFrom(s, i, count) ==
    IF i > Len(s) THEN count > 0
    ELSE IF s[i] \in {" ", "\t", "\n", "\r", "\f"} THEN ListedFrom(s, i + 1, count)
    ELSE /\ s[i] = "<"
         /\ \E j \in (i + 1)..Len(s) :
              /\ s[j] = ">"
              /\ \A k \in (i + 1)..(j - 1) : s[k] # ">"
              /\ ListedTag(SubSeq(s, i + 1, j - 1))
              /\ ListedFrom(s, j + 1, count + 1)

\* C19: ParseCPSTemplate accepts a string if and only if it is a non-empty
\* sequence of closed tags, separated only by ASCII whitespace, each exactly
\* one of <b 0xHEX>, <r N>, <rc N>, <rd N>, <t>, <c>; for every other string
\* it returns an error and no template.
C19_AcceptsIff ==
    tf.pc = "parsed" =>
        /\ tf.ok <=> ListedFrom(tf.s, 1, 0)
        /\ ~tf.ok => tf.segments = <<>>

(***************************************************************************)
(* BLAKE2s as a state machine: the state is initialised for a digest of 32 *)
(* bytes without a key or of 16 bytes under a key, the data is absorbed in *)
(* one update or in two, and the digest is produced.                       *)
(***************************************************************************)
HashLengths == {0, 1, 3, 63, 64, 65, 128, 200}

HashKeys == [none |-> <<>>, A |-> KeyA, B |-> KeyB]

\* where the data is cut in two updates; a cut at the end is one update
Cuts(n) == {c \in {1, 64, n} : c <= n}

InitB ==
    /\ batch = FALSE
    /\ cfg = CHOOSE c \in ProxyConfigs : TRUE
    /\ scen = CHOOSE sc \in Scenarios : TRUE
    /\ NewProxy
    /\ tf \in UNION { { [pc |-> "hash", key |-> k, fill |-> f,
                         data |-> Packet(<<>>, n, f), cut |-> c,
                         s |-> blake2sInit(32, <<>>), out |-> <<>>] :
                          c \in Cuts(n) } :
                      k \in {"none", "A", "B"}, f \in {"index", "ff"},
                      n \in HashLengths }

\* s := blake2sInit(32, nil) or blake2sInit(16, key[:])
blake2sInit_return ==
    /\ tf.pc = "hash"
    /\ tf' = [tf EXCEPT !.pc = "update",
                        !.s = IF tf.key = "none" THEN blake2sInit(32, <<>>)
                              ELSE blake2sInit(16, HashKeys[tf.key])]
    /\ UNCHANGED <<batch, cfg, scen, stop, shared, socks, run, sh, tc, c2s,
                   s2c, logs, env>>

\* s.update of the data up to the cut
update_first ==
    /\ tf.pc = "update"
    /\ \E r \in {blake2sUpdate(tf.s, SubSeq(tf.data, 1, tf.cut))} :
           tf' = [tf EXCEPT !.pc = IF tf.cut < Len(tf.data) THEN "update2"
                                   ELSE "sum",
                            !.s = r]
    /\ UNCHANGED <<batch, cfg, scen, stop, shared, socks, run, sh, tc, c2s,
                   s2c, logs, env>>

\* s.update of the data after the cut
update_rest ==
    /\ tf.pc = "update2"
    /\ \E r \in {blake2sUpdate(tf.s, SubSeq(tf.data, tf.cut + 1, Len(tf.data)))} :
           tf' = [tf EXCEPT !.pc = "sum", !.s = r]
    /\ UNCHANGED <<batch, cfg, scen, stop, shared, socks, run, sh, tc, c2s,
                   s2c, logs, env>>

\* s.sum(), of which blake2s128MAC keeps the first 16 bytes
sum_return ==
    /\ tf.pc = "sum"
    /\ \E r \in {blake2sSum(tf.s)} :
           tf' = [tf EXCEPT !.pc = "digest",
                            !.out = IF tf.key = "none" THEN r
                                    ELSE SubSeq(r, 1, 16)]
    /\ UNCHANGED <<batch, cfg, scen, stop, shared, socks, run, sh, tc, c2s,
                   s2c, logs, env>>

NextB ==
    \/ blake2sInit_return
    \/ update_first
    \/ update_rest
    \/ sum_return

SpecB == InitB /\ [][NextB]_vars

\* RFC 7693 BLAKE2s as its reference implementation computes it: the digest
\* of 32 bytes without a key ("none") and the tag of 16 bytes under the key
\* A (bytes 1..32) or B (bytes 254..223), of n bytes that count from 0
\* ("index") or are all 255 ("ff")
RFC7693 ==
    <<"none", "index", 0>> :> <<105, 33, 122, 48, 121, 144, 128, 148, 225, 17, 33, 208, 66, 53, 74, 124, 31, 85, 182, 72, 44, 161, 165, 30, 27, 37, 13, 253, 30, 208, 238, 249>> @@
    <<"A", "index", 0>> :> <<27, 127, 179, 195, 52, 41, 169, 117, 82, 74, 198, 150, 168, 216, 7, 12>> @@
    <<"B", "index", 0>> :> <<90, 26, 114, 221, 183, 12, 216, 158, 248, 80, 58, 98, 171, 140, 4, 60>> @@
    <<"none", "ff", 0>> :> <<105, 33, 122, 48, 121, 144, 128, 148, 225, 17, 33, 208, 66, 53, 74, 124, 31, 85, 182, 72, 44, 161, 165, 30, 27, 37, 13, 253, 30, 208, 238, 249>> @@
    <<"A", "ff", 0>> :> <<27, 127, 179, 195, 52, 41, 169, 117, 82, 74, 198, 150, 168, 216, 7, 12>> @@
    <<"B", "ff", 0>> :> <<90, 26, 114, 221, 183, 12, 216, 158, 248, 80, 58, 98, 171, 140, 4, 60>> @@
    <<"none", "index", 1>> :> <<227, 77, 116, 219, 175, 79, 244, 198, 171, 216, 113, 204, 34, 4, 81, 210, 234, 38, 72, 132, 108, 119, 87, 251, 170, 200, 47, 229, 26, 214, 75, 234>> @@
    <<"A", "index", 1>> :> <<181, 212, 9, 64, 112, 200, 158, 233, 33, 66, 207, 130, 212, 191, 68, 206>> @@
    <<"B", "index", 1>> :> <<170, 10, 192, 54, 152, 195, 107, 83, 112, 84, 84, 45, 207, 187, 234, 159>> @@
    <<"none", "ff", 1>> :> <<138, 30, 241, 38, 180, 226, 134, 112, 55, 68, 168, 11, 47, 65, 75, 231, 0, 204, 147, 2, 62, 123, 252, 134, 136, 183, 155, 84, 147, 26, 189, 39>> @@
    <<"A", "ff", 1>> :> <<73, 220, 202, 53, 154, 6, 50, 78, 106, 197, 49, 53, 146, 90, 2, 137>> @@
    <<"B", "ff", 1>> :> <<52, 125, 58, 188, 173, 130, 161, 246, 55, 52, 27, 218, 73, 16, 162, 100>> @@
    <<"none", "index", 3>> :> <<232, 249, 28, 110, 242, 50, 160, 65, 69, 42, 176, 225, 73, 7, 12, 221, 125, 209, 118, 158, 117, 179, 165, 146, 27, 227, 120, 118, 196, 92, 153, 0>> @@
    <<"A", "index", 3>> :> <<164, 116, 35, 230, 131, 6, 212, 10, 134, 53, 73, 95, 120, 139, 254, 148>> @@
    <<"B", "index", 3>> :> <<21, 242, 95, 135, 10, 46, 170, 172, 235, 247, 223, 44, 102, 8, 242, 203>> @@
    <<"none", "ff", 3>> :> <<186, 222, 255, 242, 6, 20, 176, 132, 46, 81, 149, 115, 182, 0, 161, 112, 212, 247, 185, 116, 187, 124, 3, 132, 105, 34, 186, 77, 149, 153, 20, 41>> @@
    <<"A", "ff", 3>> :> <<226, 49, 35, 139, 12, 70, 154, 222, 131, 229, 42, 61, 180, 42, 16, 150>> @@
    <<"B", "ff", 3>> :> <<195, 170, 112, 81, 42, 181, 11, 190, 106, 23, 143, 158, 90, 211, 119, 178>> @@
    <<"none", "index", 63>> :> <<229, 124, 183, 148, 135, 221, 87, 144, 36, 50, 178, 80, 115, 56, 19, 189, 150, 168, 78, 252, 229, 159, 101, 15, 172, 38, 230, 105, 106, 239, 175, 195>> @@
    <<"A", "index", 63>> :> <<153, 251, 73, 199, 126, 34, 68, 55, 150, 49, 181, 241, 246, 154, 191, 80>> @@
    <<"B", "index", 63>> :> <<103, 29, 234, 213, 95, 23, 77, 128, 108, 139, 171, 187, 109, 214, 129, 239>> @@
    <<"none", "ff", 63>> :> <<5, 218, 173, 56, 145, 87, 164, 44, 193, 19, 202, 241, 172, 18, 85, 66, 169, 125, 36, 132, 29, 255, 149, 141, 85, 135, 252, 199, 139, 82, 22, 249>> @@
    <<"A", "ff", 63>> :> <<84, 198, 11, 233, 233, 52, 190, 75, 231, 80, 64, 216, 22, 216, 6, 1>> @@
    <<"B", "ff", 63>> :> <<200, 229, 82, 107, 109, 55, 65, 108, 48, 3, 179, 136, 236, 213, 69, 2>> @@
    <<"none", "index", 64>> :> <<86, 243, 78, 139, 150, 85, 126, 144, 193, 242, 75, 82, 208, 200, 157, 81, 8, 106, 207, 27, 0, 246, 52, 207, 29, 222, 146, 51, 184, 234, 170, 62>> @@
    <<"A", "index", 64>> :> <<80, 17, 243, 150, 133, 132, 53, 210, 246, 75, 180, 35, 135, 195, 143, 78>> @@
    <<"B", "index", 64>> :> <<155, 186, 8, 14, 179, 230, 156, 227, 29, 169, 43, 157, 117, 175, 185, 20>> @@
    <<"none", "ff", 64>> :> <<238, 146, 217, 215, 101, 170, 198, 84, 188, 6, 46, 168, 226, 68, 86, 187, 26, 115, 200, 102, 67, 189, 172, 126, 196, 255, 46, 253, 129, 114, 16, 99>> @@
    <<"A", "ff", 64>> :> <<210, 79, 174, 86, 102, 189, 200, 114, 140, 200, 24, 226, 142, 163, 53, 189>> @@
    <<"B", "ff", 64>> :> <<80, 188, 66, 69, 233, 141, 71, 188, 107, 226, 104, 91, 238, 132, 176, 209>> @@
    <<"none", "index", 65>> :> <<27, 83, 238, 148, 170, 243, 78, 75, 21, 157, 72, 222, 53, 44, 127, 6, 97, 208, 164, 14, 223, 249, 90, 11, 22, 57, 180, 9, 14, 151, 68, 114>> @@
    <<"A", "index", 65>> :> <<32, 169, 195, 208, 228, 3, 240, 0, 234, 26, 153, 34, 157, 183, 137, 112>> @@
    <<"B", "index", 65>> :> <<167, 89, 40, 152, 243, 218, 186, 144, 165, 28, 132, 118, 102, 59, 151, 166>> @@
    <<"none", "ff", 65>> :> <<44, 220, 40, 143, 42, 61, 26, 19, 76, 252, 247, 150, 242, 53, 193, 57, 49, 249, 176, 27, 67, 7, 78, 5, 47, 152, 213, 1, 42, 96, 58, 214>> @@
    <<"A", "ff", 65>> :> <<97, 133, 85, 248, 188, 86, 166, 241, 38, 54, 224, 196, 137, 230, 248, 28>> @@
    <<"B", "ff", 65>> :> <<27, 108, 21, 240, 232, 129, 150, 27, 127, 124, 229, 180, 8, 245, 142, 177>> @@
    <<"none", "index", 128>> :> <<31, 168, 119, 222, 103, 37, 157, 25, 134, 58, 42, 52, 188, 198, 150, 42, 43, 37, 252, 191, 92, 190, 205, 126, 222, 143, 31, 163, 102, 136, 167, 150>> @@
    <<"A", "index", 128>> :> <<236, 178, 54, 74, 255, 5, 4, 169, 71, 22, 219, 183, 155, 3, 160, 44>> @@
    <<"B", "index", 128>> :> <<226, 59, 1, 207, 208, 35, 59, 46, 209, 148, 0, 154, 235, 189, 29, 201>> @@
    <<"none", "ff", 128>> :> <<32, 223, 227, 173, 30, 207, 217, 211, 233, 233, 240, 118, 35, 73, 85, 107, 31, 78, 121, 112, 23, 25, 207, 180, 147, 62, 66, 253, 198, 84, 45, 240>> @@
    <<"A", "ff", 128>> :> <<211, 220, 149, 77, 83, 221, 217, 172, 34, 65, 94, 210, 35, 31, 86, 216>> @@
    <<"B", "ff", 128>> :> <<173, 30, 190, 137, 255, 126, 139, 95, 223, 168, 41, 212, 42, 206, 0, 221>> @@
    <<"none", "index", 200>> :> <<109, 36, 78, 26, 6, 206, 78, 245, 120, 221, 15, 99, 175, 240, 147, 103, 6, 115, 81, 25, 202, 156, 141, 34, 216, 108, 128, 20, 20, 171, 151, 65>> @@
    <<"A", "index", 200>> :> <<118, 100, 188, 71, 69, 237, 237, 241, 235, 209, 230, 14, 199, 212, 154, 199>> @@
    <<"B", "index", 200>> :> <<181, 172, 20, 108, 191, 152, 120, 243, 25, 19, 48, 234, 54, 103, 244, 51>> @@
    <<"none", "ff", 200>> :> <<127, 119, 199, 248, 132, 56, 6, 98, 25, 86, 28, 68, 33, 174, 141, 231, 70, 133, 99, 30, 63, 201, 75, 37, 120, 134, 140, 191, 24, 97, 145, 133>> @@
    <<"A", "ff", 200>> :> <<139, 61, 71, 248, 86, 29, 187, 77, 230, 199, 99, 157, 241, 227, 90, 62>> @@
    <<"B", "ff", 200>> :> <<148, 222, 235, 185, 211, 116, 144, 203, 67, 247, 233, 117, 72, 248, 170, 196>>

\* C20: blake2s256 and blake2s128MAC equal RFC 7693 BLAKE2s (the 32-byte
\* digest without a key, the 16-byte tag under a 32-byte key) on the empty
\* input and on inputs of 1, 3, 63, 64, 65, 128 and 200 bytes, absorbed in
\* one update or in two.
C20_MatchesRFC7693 ==
    tf.pc = "digest" => tf.out = RFC7693[<<tf.key, tf.fill, Len(tf.data)>>]

\* a tag over 200 bytes absorbed as 64 bytes and 136 bytes
C20_Witness ==
    /\ tf.pc = "digest"
    /\ tf.key = "A"
    /\ Len(tf.data) = 200
    /\ tf.cut = 64
    /\ Len(tf.out) = 16
    /\ tf.out = RFC7693[<<"A", tf.fill, 200>>]

(***************************************************************************)
(* The buffers of the batch loops (batch_linux.go): one received message   *)
(* is taken through the slices and copies that clientToServerBatch or      *)
(* serverToClientBatch makes for it.  A slice expression whose bounds      *)
(* exceed the array it is taken from panics.                               *)
(***************************************************************************)
bufSize == 1500
batchSize == 32
maxPadding == 256

\* len(bs.bufs[i]) and len(tmpBuf): [bufSize + 256]byte
bufLen == bufSize + 256

\* the lengths recvmmsg is taken to report: initRecv gives every receive
\* iovec the length len(bs.bufs[i])
RecvLengths == {1, 4, 32, 64, 92, 148, bufSize, bufSize + 1, bufLen}

\* the paddings S1..S4
Paddings == {0, 1, maxPadding}

\* the type fields of the received message: the four kinds, and another
MsgTypes == {wgHandshakeInit, wgHandshakeResponse, wgCookieReply,
             wgTransportData, 0}

\* len(out) of TransformOutbound: the padding of the kind is prepended,
\* except for transport data under h4NoOp and for unknown packets
OutboundLen(msgType, n, c) ==
    LET k == OutboundKind(U32(msgType), n)
    IN  IF k = 0 THEN n
        ELSE IF k = wgTransportData /\ c.h4NoOp THEN n
        ELSE PadOf(c, k) + n

InitM ==
    /\ batch = TRUE
    /\ cfg = CHOOSE c \in ProxyConfigs : TRUE
    /\ scen = CHOOSE sc \in Scenarios : TRUE
    /\ NewProxy
    /\ tf \in { [pc |-> "bRecvd", dir |-> d, n |-> n, msgType |-> t,
                 i |-> i, nSend |-> i, outLen |-> 0,
                 c |-> [S1 |-> p, S2 |-> p, S3 |-> p, S4 |-> q,
                        h4NoOp |-> (h /\ q = 0)]] :
                d \in {"c2s", "s2c"}, n \in RecvLengths, t \in MsgTypes,
                i \in {0, batchSize - 1}, p \in Paddings, q \in Paddings,
                h \in BOOLEAN }

\* data := recvBS.bufs[i][:n]; the fast path copies it to sendBS.bufs[nSend][:n]
clientToServerBatch_fastPath ==
    /\ tf.pc = "bRecvd" /\ tf.dir = "c2s"
    /\ tf.c.h4NoOp /\ tf.n >= WgTransportMinSize /\ tf.msgType = wgTransportData
    /\ tf' = IF tf.i < batchSize /\ tf.nSend < batchSize /\ tf.n <= bufLen
             THEN [tf EXCEPT !.pc = "bQueued", !.outLen = tf.n,
                             !.nSend = @ + 1]
             ELSE [tf EXCEPT !.pc = "bPanic"]
    /\ UNCHANGED <<batch, cfg, scen, stop, shared, socks, run, sh, tc, c2s,
                   s2c, logs, env>>

\* prefix := p.cfg.S4; copy(tmpBuf[prefix:prefix+n], data)
clientToServerBatch_stage ==
    /\ tf.pc = "bRecvd" /\ tf.dir = "c2s"
    /\ ~(tf.c.h4NoOp /\ tf.n >= WgTransportMinSize
         /\ tf.msgType = wgTransportData)
    /\ tf' = IF tf.i < batchSize /\ tf.n <= bufLen /\ tf.c.S4 + tf.n <= bufLen
             THEN [tf EXCEPT !.pc = "bStaged"]
             ELSE [tf EXCEPT !.pc = "bPanic"]
    /\ UNCHANGED <<batch, cfg, scen, stop, shared, socks, run, sh, tc, c2s,
                   s2c, logs, env>>

\* out, sendJunk := TransformOutbound(tmpBuf[:prefix+n], prefix, n, p.cfg)
clientToServerBatch_transform ==
    /\ tf.pc = "bStaged" /\ tf.dir = "c2s"
    /\ tf' = [tf EXCEPT !.pc = "bOut",
                        !.outLen = OutboundLen(tf.msgType, tf.n, tf.c)]
    /\ UNCHANGED <<batch, cfg, scen, stop, shared, socks, run, sh, tc, c2s,
                   s2c, logs, env>>

\* out, valid := TransformInbound(recvBS.bufs[i][:n], n, p.cfg): out is the
\* datagram from the offset at which its type field was found
serverToClientBatch_transform ==
    /\ tf.pc = "bRecvd" /\ tf.dir = "s2c"
    /\ \E off \in {0, tf.c.S1, tf.c.S4} :
          /\ off <= tf.n
          /\ tf' = IF tf.i < batchSize /\ tf.n <= bufLen
                   THEN [tf EXCEPT !.pc = "bOut", !.outLen = tf.n - off]
                   ELSE [tf EXCEPT !.pc = "bPanic"]
    /\ UNCHANGED <<batch, cfg, scen, stop, shared, socks, run, sh, tc, c2s,
                   s2c, logs, env>>

\* copy(sendBS.bufs[nSend][:len(out)], out); nSend++  (sendSingle copies to
\* bs.bufs[0][:len(data)] in the same way)
batch_copyOut ==
    /\ tf.pc = "bOut"
    /\ tf' = IF tf.nSend < batchSize /\ tf.outLen <= bufLen
             THEN [tf EXCEPT !.pc = "bQueued", !.nSend = @ + 1]
             ELSE [tf EXCEPT !.pc = "bPanic"]
    /\ UNCHANGED <<batch, cfg, scen, stop, shared, socks, run, sh, tc, c2s,
                   s2c, logs, env>>

NextM ==
    \/ clientToServerBatch_fastPath
    \/ clientToServerBatch_stage
    \/ clientToServerBatch_transform
    \/ serverToClientBatch_transform
    \/ batch_copyOut

SpecM == InitM /\ [][NextM]_vars

\* C34: for every length the receive can report and all paddings in
\* [0, 256], no slice of tmpBuf, of a receive buffer or of a send buffer is
\* out of range.
C34_WithinBuffers == tf.pc # "bPanic"

\* what the buffers do have room for: a datagram of at most bufSize bytes
\* with its padding
C34_RoomUpToBufSize ==
    (tf.n <= bufSize) => tf.pc # "bPanic"

(***************************************************************************)
(* sendBatch (batch_linux.go), call by call: count messages are queued in  *)
(* bs.msgs[0..count-1]; sent lists the indices of the messages the kernel  *)
(* has transmitted, in the order of transmission.                          *)
(***************************************************************************)
MaxCount == 6

\* a call of sendBatch; a socket that stalls may have sendmmsg return 0
\* without an error
InitS ==
    /\ batch = TRUE
    /\ cfg = CHOOSE c \in ProxyConfigs : TRUE
    /\ scen = CHOOSE sc \in Scenarios : TRUE
    /\ NewProxy
    /\ tf \in { [pc |-> "sbCall", count |-> n, total |-> 0, sent |-> <<>>,
                 calls |-> 0, ret |-> 0, err |-> FALSE, stall |-> st,
                 spin |-> FALSE, fails |-> f] :
                n \in 0..MaxCount, st \in BOOLEAN, f \in BOOLEAN }

\* if count <= 0 { return 0, nil }; total := 0
sendBatch_call ==
    /\ tf.pc = "sbCall"
    /\ tf' = IF tf.count <= 0
             THEN [tf EXCEPT !.pc = "sbDone", !.ret = 0, !.err = FALSE]
             ELSE [tf EXCEPT !.pc = "sbLoop", !.total = 0]
    /\ UNCHANGED <<batch, cfg, scen, stop, shared, socks, run, sh, tc, c2s,
                   s2c, logs, env>>

\* Variant: every sendmmsg call starts at the first message of the batch.
sendmmsgSends_restart(first, r) == [j \in 1..r |-> j - 1]

\* the messages one sendmmsg(&bs.msgs[first], vlen) that returns r transmits
sendmmsgSends(first, r) == [j \in 1..r |-> first + j - 1]

\* one iteration of `for total < count`: sendmmsg(&bs.msgs[total],
\* count-total) returns r >= 1; total += n
sendBatch_sendmmsg ==
    /\ tf.pc = "sbLoop"
    /\ tf.total < tf.count
    /\ \E r \in 1..(tf.count - tf.total) :
          tf' = [tf EXCEPT !.total = @ + r, !.calls = @ + 1,
                           !.sent = @ \o sendmmsgSends(tf.total, r)]
    /\ UNCHANGED <<batch, cfg, scen, stop, shared, socks, run, sh, tc, c2s,
                   s2c, logs, env>>

\* one iteration in which sendmmsg returns 0 and no error: total += 0
sendBatch_sendNone ==
    /\ tf.pc = "sbLoop"
    /\ tf.total < tf.count
    /\ tf.stall
    /\ tf' = [tf EXCEPT !.spin = ~@]
    /\ UNCHANGED <<batch, cfg, scen, stop, shared, socks, run, sh, tc, c2s,
                   s2c, logs, env>>

\* one iteration in which sendmmsg or raw.Write fails: return total, err
sendBatch_error ==
    /\ tf.pc = "sbLoop"
    /\ tf.total < tf.count
    /\ tf.fails
    /\ tf' = [tf EXCEPT !.pc = "sbDone", !.ret = tf.total, !.err = TRUE]
    /\ UNCHANGED <<batch, cfg, scen, stop, shared, socks, run, sh, tc, c2s,
                   s2c, logs, env>>

\* the loop condition fails: return total, nil
sendBatch_return ==
    /\ tf.pc = "sbLoop"
    /\ ~(tf.total < tf.count)
    /\ tf' = [tf EXCEPT !.pc = "sbDone", !.ret = tf.total, !.err = FALSE]
    /\ UNCHANGED <<batch, cfg, scen, stop, shared, socks, run, sh, tc, c2s,
                   s2c, logs, env>>

NextS ==
    \/ sendBatch_call
    \/ sendBatch_sendmmsg
    \/ sendBatch_sendNone
    \/ sendBatch_error
    \/ sendBatch_return

\* The goroutine that called sendBatch keeps running.
SpecS == InitS /\ [][NextS]_vars /\ WF_vars(NextS)

\* messages 0..k-1 in index order
InOrder(k) == [j \in 1..k |-> j - 1]

sendBatchSafe ==
    /\ tf.total <= tf.count
    /\ tf.sent = InOrder(tf.total)
    /\ (tf.pc = "sbDone" /\ ~tf.err)
         => tf.ret = tf.count /\ tf.sent = InOrder(tf.count)
    /\ (tf.pc = "sbDone" /\ tf.err)
         => tf.ret = Len(tf.sent) /\ tf.ret < tf.count

\* C35: the messages transmitted so far are always 0..total-1 in index
\* order, each once; a return without error returns count with all of
\* 0..count-1 transmitted; a return with an error returns the number of
\* messages transmitted; and a call on a socket where every sendmmsg sends
\* at least one message or fails returns.
C35_SendBatch ==
    /\ []sendBatchSafe
    /\ (~tf.stall) ~> (tf.pc = "sbDone")

\* four messages were transmitted by three sendmmsg calls, and the call
\* returned 4
C35_Witness ==
    /\ tf.pc = "sbDone"
    /\ tf.count = 4
    /\ tf.calls = 3
    /\ ~tf.err
    /\ tf.ret = 4
    /\ tf.sent = <<0, 1, 2, 3>>

(***************************************************************************)
(* The fast path of clientToServerBatch against TransformOutbound          *)
(***************************************************************************)
\* Variant: the fast path does not look at the type field.
fastPath_anyType(data, n, c) ==
    IF c.h4NoOp /\ n >= WgTransportMinSize
    THEN [taken |-> TRUE, out |-> SubSeq(data, 1, n)]
    ELSE [taken |-> FALSE, out |-> <<>>]

\* if p.cfg.h4NoOp && n >= WgTransportMinSize {
\*     h := binary.LittleEndian.Uint32(data[:4])
\*     if h == wgTransportData { copy(sendBS.bufs[nSend][:n], data) ... } }
\* whether the fast path is taken for data[:n], and the bytes it queues
fastPath(data, n, c) ==
    IF c.h4NoOp /\ n >= WgTransportMinSize
       /\ LEUint32(data, 0) = U32(wgTransportData)
    THEN [taken |-> TRUE, out |-> SubSeq(data, 1, n)]
    ELSE [taken |-> FALSE, out |-> <<>>]

\* H4 = {4, 4} and S4 = 0
H4Identity(c) ==
    /\ c.H4.Min = U32(wgTransportData)
    /\ c.H4.Max = U32(wgTransportData)
    /\ c.S4 = 0

\* C36: under H4 = {4, 4} and S4 = 0, TransformOutbound returns a transport
\* packet as it is, without junk, and TransformInbound returns it as it is
\* and valid, whether it comes back from TransformOutbound or arrives from
\* the server; and whenever the fast path is taken it queues the bytes that
\* TransformOutbound returns for the same input.
C36_FastPathIdentity ==
    /\ (tf.pc \in {"out", "back"} /\ H4Identity(tf.cfg) /\ KindOf(tf.buf) = 4)
         => tf.out = tf.buf /\ ~tf.sendJunk
    /\ (tf.pc \in {"back", "fwd"} /\ H4Identity(tf.cfg) /\ KindOf(tf.buf) = 4)
         => tf.valid /\ tf.back = tf.buf
    /\ (tf.pc = "out" /\ fastPath(tf.buf, Len(tf.buf), tf.cfg).taken)
         => /\ fastPath(tf.buf, Len(tf.buf), tf.cfg).out = tf.out
            /\ ~tf.sendJunk
    /\ (tf.pc = "out" /\ H4Identity(tf.cfg) /\ KindOf(tf.buf) = 4)
         => fastPath(tf.buf, Len(tf.buf), tf.cfg).taken

\* a transport packet of the size of a handshake-init went out and came
\* back unchanged under the standard headers, where the fast path is taken
C36_Witness ==
    /\ tf.pc = "back"
    /\ H4Identity(tf.cfg)
    /\ KindOf(tf.buf) = 4
    /\ Len(tf.buf) = WgHandshakeInitSize
    /\ fastPath(tf.buf, Len(tf.buf), tf.cfg).taken
    /\ tf.back = tf.buf

\* C37: under a server key, the handshake-init that TransformOutbound
\* returns carries, after its S1 bytes of padding, a type field picked from
\* H1 and in bytes [116, 132) the MAC of the 116 bytes before them, the
\* picked type field included; under a client key, a handshake-response
\* that TransformInbound returns has type 2 and in bytes [60, 76) the MAC
\* of its bytes [0, 60).
C37_MACOverRewrittenType ==
    /\ (Returned /\ KindOf(tf.buf) = 1 /\ tf.cfg.ServerPub # NoKey) =>
          LET S == tf.cfg.S1
              body == SubSeq(tf.out, S + 1, Len(tf.out))
          IN  /\ Len(body) = WgHandshakeInitSize
              /\ Contains(tf.cfg.H1, LEUint32(body, 0))
              /\ SubSeq(body, 117, 132)
                   = blake2s128MAC(tf.cfg.mac1keyServer, SubSeq(body, 1, 116))
    /\ (InboundDone /\ tf.valid /\ tf.cfg.ClientPub # NoKey
        /\ SubSeq(tf.back, 1, 4) = LEBytes(U32(wgHandshakeResponse))) =>
          /\ Len(tf.back) = WgHandshakeResponseSize
          /\ SubSeq(tf.back, 61, 76)
               = blake2s128MAC(tf.cfg.mac1keyClient, SubSeq(tf.back, 1, 60))

\* a handshake-init went out under a server key with padding and with a
\* type field that is not 1
C37_Witness ==
    /\ tf.pc = "out"
    /\ KindOf(tf.buf) = 1
    /\ tf.cfg.ServerPub # NoKey
    /\ tf.cfg.S1 > 0
    /\ Len(tf.out) = tf.cfg.S1 + WgHandshakeInitSize
    /\ LEUint32(tf.out, tf.cfg.S1) # U32(wgHandshakeInit)

(***************************************************************************)
(* recomputeMAC1 and recomputeMAC1Response (blake2s.go), applied to a      *)
(* buffer and then to their own result.                                    *)
(***************************************************************************)
\* the buffers: a type field, a body, and the lengths the callers pass and
\* longer ones
MACBuffers ==
    [init |-> { Packet(LEBytes(t), n, f) :
                  t \in {U32(wgHandshakeInit), <<18838, 722>>},
                  n \in {132, WgHandshakeInitSize, 180},
                  f \in {"index", "ff"} },
     resp |-> { Packet(LEBytes(t), n, f) :
                  t \in {U32(wgHandshakeResponse), <<18838, 722>>},
                  n \in {76, WgHandshakeResponseSize, 120},
                  f \in {"index", "ff"} }]

InitR ==
    /\ batch = FALSE
    /\ cfg = CHOOSE c \in ProxyConfigs : TRUE
    /\ scen = CHOOSE sc \in Scenarios : TRUE
    /\ NewProxy
    /\ tf \in UNION { { [pc |-> "mac", fn |-> fn, key |-> k, buf |-> b,
                         once |-> <<>>, twice |-> <<>>] :
                          b \in MACBuffers[fn] } :
                      fn \in {"init", "resp"},
                      k \in {KeyA, KeyB, computeMAC1Key(KeyA)} }

\* recomputeMAC1(buf, mac1key)
recomputeMAC1_return ==
    /\ tf.pc = "mac" /\ tf.fn = "init"
    /\ \E r \in {recomputeMAC1(tf.buf, tf.key)} :
          tf' = [tf EXCEPT !.pc = "mac1", !.once = r]
    /\ UNCHANGED <<batch, cfg, scen, stop, shared, socks, run, sh, tc, c2s,
                   s2c, logs, env>>

\* recomputeMAC1Response(buf, mac1key)
recomputeMAC1Response_return ==
    /\ tf.pc = "mac" /\ tf.fn = "resp"
    /\ \E r \in {recomputeMAC1Response(tf.buf, tf.key)} :
          tf' = [tf EXCEPT !.pc = "mac1", !.once = r]
    /\ UNCHANGED <<batch, cfg, scen, stop, shared, socks, run, sh, tc, c2s,
                   s2c, logs, env>>

\* recomputeMAC1 on the buffer it has left
recomputeMAC1_again ==
    /\ tf.pc = "mac1" /\ tf.fn = "init"
    /\ \E r \in {recomputeMAC1(tf.once, tf.key)} :
          tf' = [tf EXCEPT !.pc = "mac2", !.twice = r]
    /\ UNCHANGED <<batch, cfg, scen, stop, shared, socks, run, sh, tc, c2s,
                   s2c, logs, env>>

\* recomputeMAC1Response on the buffer it has left
recomputeMAC1Response_again ==
    /\ tf.pc = "mac1" /\ tf.fn = "resp"
    /\ \E r \in {recomputeMAC1Response(tf.once, tf.key)} :
          tf' = [tf EXCEPT !.pc = "mac2", !.twice = r]
    /\ UNCHANGED <<batch, cfg, scen, stop, shared, socks, run, sh, tc, c2s,
                   s2c, logs, env>>

NextR ==
    \/ recomputeMAC1_return
    \/ recomputeMAC1Response_return
    \/ recomputeMAC1_again
    \/ recomputeMAC1Response_again

SpecR == InitR /\ [][NextR]_vars

\* the bytes [at, at + 16) of after are the MAC of the at bytes of before
\* that precede them, and every other byte of after is the byte of before
MACWritten(before, after, key, at) ==
    /\ Len(after) = Len(before)
    /\ SubSeq(after, at + 1, at + 16)
         = blake2s128MAC(key, SubSeq(before, 1, at))
    /\ \A i \in 1..Len(before) :
          i \in (at + 1)..(at + 16) \/ after[i] = before[i]

\* C38: recomputeMAC1 writes the MAC of buf[0..116) into buf[116..132) and
\* recomputeMAC1Response the MAC of buf[0..60) into buf[60..76); every other
\* byte stays; a second application leaves the buffer as the first left it.
C38_MACFrame ==
    /\ (tf.pc \in {"mac1", "mac2"}) =>
          MACWritten(tf.buf, tf.once, tf.key,
                     IF tf.fn = "init" THEN 116 ELSE 60)
    /\ (tf.pc = "mac2") => tf.twice = tf.once

\* recomputeMAC1 was applied twice to a handshake-init whose MAC1 field it
\* changed
C38_Witness ==
    /\ tf.pc = "mac2"
    /\ tf.fn = "init"
    /\ Len(tf.buf) = WgHandshakeInitSize
    /\ tf.once # tf.buf
    /\ tf.twice = tf.once

(***************************************************************************)
(* BLAKE2s over an input cut into chunks: the state is initialised, each   *)
(* chunk is absorbed by one call of update, and sum makes the digest.      *)
(***************************************************************************)
ChunkedLengths == {0, 1, 64, 65, 128, 129, 200}

\* where an input of n bytes is cut
CutPoints(n) == {p \in {0, 1, 63, 64, 65, 128} : p <= n} \cup {n}

\* the cuts of n bytes into three consecutive chunks, empty ones included
Chunkings(n) ==
    UNION { { <<a, b - a, n - b>> : b \in {q \in CutPoints(n) : q >= a} } :
            a \in CutPoints(n) }

InitC ==
    /\ batch = FALSE
    /\ cfg = CHOOSE c \in ProxyConfigs : TRUE
    /\ scen = CHOOSE sc \in Scenarios : TRUE
    /\ NewProxy
    /\ tf \in UNION { { [pc |-> "cInit", key |-> k,
                         data |-> Packet(<<>>, n, "index"), chunks |-> ch,
                         k |-> 1, pos |-> 0, s |-> blake2sInit(32, <<>>),
                         last |-> <<>>, out |-> <<>>] :
                          ch \in Chunkings(n) } :
                      k \in {"none", "A"}, n \in ChunkedLengths }

\* the state blake2sInit returns for the job's key
initialState(key) ==
    IF key = "none" THEN blake2sInit(32, <<>>)
    ELSE blake2sInit(16, HashKeys[key])

\* s := blake2sInit(32, nil) or blake2sInit(16, key[:])
blake2sInit_chunked ==
    /\ tf.pc = "cInit"
    /\ tf' = [tf EXCEPT !.pc = "cUpdate", !.s = initialState(tf.key)]
    /\ UNCHANGED <<batch, cfg, scen, stop, shared, socks, run, sh, tc, c2s,
                   s2c, logs, env>>

\* s.update(chunk) for the next chunk
update_chunk ==
    /\ tf.pc = "cUpdate"
    /\ LET n == tf.chunks[tf.k]
       IN  \E r \in {blake2sUpdate(tf.s, SubSeq(tf.data, tf.pos + 1, tf.pos + n))} :
              tf' = [tf EXCEPT !.s = r, !.pos = @ + n, !.k = @ + 1,
                               !.pc = IF tf.k = Len(tf.chunks) THEN "cSum"
                                      ELSE "cUpdate"]
    /\ UNCHANGED <<batch, cfg, scen, stop, shared, socks, run, sh, tc, c2s,
                   s2c, logs, env>>

\* s.sum()
sum_chunked ==
    /\ tf.pc = "cSum"
    /\ \E r \in {blake2sSum(tf.s)} :
          tf' = [tf EXCEPT !.pc = "cDigest", !.out = r,
                           !.last = <<blake2sLast(tf.s)>>]
    /\ UNCHANGED <<batch, cfg, scen, stop, shared, socks, run, sh, tc, c2s,
                   s2c, logs, env>>

NextC ==
    \/ blake2sInit_chunked
    \/ update_chunk
    \/ sum_chunked

SpecC == InitC /\ [][NextC]_vars

\* the bytes the state has been given: the key block and the chunks so far
absorbed == (IF tf.key = "none" THEN 0 ELSE 64) + tf.pos

\* two states that hold the same chaining value, counter and buffered bytes
\* and have made the same blake2sCompress calls
SameState(s1, s2) ==
    /\ s1.calls = s2.calls
    /\ s1.h = s2.h
    /\ s1.t0 = s2.t0 /\ s1.t1 = s2.t1
    /\ s1.bufLen = s2.bufLen
    /\ SubSeq(s1.buf, 1, s1.bufLen) = SubSeq(s2.buf, 1, s2.bufLen)

\* C39: however the input is cut, the buffered length stays in [0, 64],
\* the updates compress only full blocks that are followed by more input,
\* never with the last flag, and the calls they have made are the first
\* calls of one update with the whole input; after the last chunk the state
\* is the state after that one update, and sum makes the same last
\* blake2sCompress call and the same digest.
C39_SplitIndependent ==
    (tf.pc \in {"cUpdate", "cSum", "cDigest"}) =>
        \A whole \in {blake2sUpdate(initialState(tf.key), tf.data)} :
            /\ tf.s.bufLen \in 0..64
            /\ Len(tf.s.calls) * 64 + tf.s.bufLen = absorbed
            /\ (absorbed > 0) => tf.s.bufLen > 0
            /\ \A i \in 1..Len(tf.s.calls) : ~tf.s.calls[i].last
            /\ tf.s.calls = SubSeq(whole.calls, 1, Len(tf.s.calls))
            /\ (tf.pc \in {"cSum", "cDigest"}) => SameState(tf.s, whole)
            /\ (tf.pc = "cDigest") =>
                  /\ tf.last = <<blake2sLast(whole)>>
                  /\ tf.last[1].last
                  /\ tf.last[1].t0 = U32(absorbed)
                  /\ tf.out = blake2sSum(whole)

\* a keyed digest of 129 bytes absorbed as an empty chunk, 64 bytes and 65
\* bytes: the key block and two blocks of input were compressed by the
\* updates, and the last byte by sum
C39_Witness ==
    /\ tf.pc = "cDigest"
    /\ tf.key = "A"
    /\ tf.chunks = <<0, 64, 65>>
    /\ Len(tf.s.calls) = 3
    /\ tf.s.bufLen = 1

(***************************************************************************)
(* isClosedErr and isClosedErrString (proxy.go).  An error is the value    *)
(* it is compared by and the message its Error method returns, a sequence  *)
(* of characters.                                                          *)
(***************************************************************************)
\* "use of closed", the substring isClosedErrString looks for
useOfClosed ==
    <<"u", "s", "e", " ", "o", "f", " ", "c", "l", "o", "s", "e", "d">>

\* the pieces the messages of the errors are made of
readUdp ==
    <<"r", "e", "a", "d", " ", "u", "d", "p", ":", " ">>

networkConnection ==
    <<" ", "n", "e", "t", "w", "o", "r", "k", " ", "c", "o", "n", "n",
      "e", "c", "t", "i", "o", "n">>

useOfClose ==
    <<"u", "s", "e", " ", "o", "f", " ", "c", "l", "o", "s", "e">>

seOfClosed ==
    <<"s", "e", " ", "o", "f", " ", "c", "l", "o", "s", "e", "d">>

connectionRefused ==
    <<"c", "o", "n", "n", "e", "c", "t", "i", "o", "n", " ", "r", "e",
      "f", "u", "s", "e", "d">>

badFileDescriptor ==
    <<"b", "a", "d", " ", "f", "i", "l", "e", " ", "d", "e", "s", "c",
      "r", "i", "p", "t", "o", "r">>

\* net.ErrClosed, and the errno values EBADF and ECONNREFUSED with the
\* messages of syscall.Errno.Error
netErrClosed ==
    [id |-> "net.ErrClosed", msg |-> useOfClosed \o networkConnection]

EBADF == [id |-> "EBADF", msg |-> badFileDescriptor]

ECONNREFUSED == [id |-> "ECONNREFUSED", msg |-> connectionRefused]

\* errors of other types, which are equal to none of the above: a message
\* is a prefix, a core and a suffix
simpleErrs ==
    { [id |-> "simpleErr", msg |-> pre \o core \o post] :
        pre \in {<<>>, readUdp, <<"u">>},
        core \in {useOfClosed, useOfClose, seOfClosed, connectionRefused,
                  badFileDescriptor, useOfClose \o <<" ">> \o useOfClosed,
                  <<>>},
        post \in {<<>>, networkConnection, <<"d">>} }

Errors == {netErrClosed, EBADF, ECONNREFUSED} \cup simpleErrs

InitE ==
    /\ batch = FALSE
    /\ cfg = CHOOSE c \in ProxyConfigs : TRUE
    /\ scen = CHOOSE sc \in Scenarios : TRUE
    /\ NewProxy
    /\ tf \in { [pc |-> "ceCall", err |-> e, i |-> 0, ret |-> FALSE] :
                e \in Errors }

\* return err == net.ErrClosed || isClosedErrString(err): the left operand
isClosedErr_compare ==
    /\ tf.pc = "ceCall"
    /\ tf' = IF tf.err = netErrClosed
             THEN [tf EXCEPT !.pc = "ceDone", !.ret = TRUE]
             ELSE [tf EXCEPT !.pc = "ceLoop", !.i = 0]
    /\ UNCHANGED <<batch, cfg, scen, stop, shared, socks, run, sh, tc, c2s,
                   s2c, logs, env>>

\* one iteration of `for i := 0; i+len("use of closed") <= len(s); i++`
isClosedErrString_loop ==
    /\ tf.pc = "ceLoop"
    /\ tf.i + Len(useOfClosed) <= Len(tf.err.msg)
    /\ tf' = IF SubSeq(tf.err.msg, tf.i + 1, tf.i + Len(useOfClosed))
                  = useOfClosed
             THEN [tf EXCEPT !.pc = "ceDone", !.ret = TRUE]
             ELSE [tf EXCEPT !.i = @ + 1]
    /\ UNCHANGED <<batch, cfg, scen, stop, shared, socks, run, sh, tc, c2s,
                   s2c, logs, env>>

\* the loop ends: return false
isClosedErrString_return ==
    /\ tf.pc = "ceLoop"
    /\ ~(tf.i + Len(useOfClosed) <= Len(tf.err.msg))
    /\ tf' = [tf EXCEPT !.pc = "ceDone", !.ret = FALSE]
    /\ UNCHANGED <<batch, cfg, scen, stop, shared, socks, run, sh, tc, c2s,
                   s2c, logs, env>>

NextE ==
    \/ isClosedErr_compare
    \/ isClosedErrString_loop
    \/ isClosedErrString_return

SpecE == InitE /\ [][NextE]_vars

\* the message holds "use of closed"
HasUseOfClosed(msg) ==
    \E k \in 0..Len(msg) :
        /\ k + Len(useOfClosed) <= Len(msg)
        /\ SubSeq(msg, k + 1, k + Len(useOfClosed)) = useOfClosed

\* C40: isClosedErr returns true for net.ErrClosed, for EBADF and for every
\* error whose message holds "use of closed", and false for every other
\* error.
C40_ClosedErrors ==
    (tf.pc = "ceDone") =>
        (tf.ret <=> \/ tf.err = netErrClosed
                    \/ tf.err = EBADF
                    \/ HasUseOfClosed(tf.err.msg))

\* what isClosedErr does return: true for net.ErrClosed and for every
\* error whose message holds "use of closed", false for every other error
C40_SentinelOrSubstring ==
    (tf.pc = "ceDone") =>
        (tf.ret <=> \/ tf.err = netErrClosed
                    \/ HasUseOfClosed(tf.err.msg))

====
